---- MODULE Spec2Model ----
(***************************************************************************)
(* Cross-platform market matching, gap analysis and arbitrage calculator   *)
(* of the pre-market tracker dashboard (src/src/polymarket/ui/dashboard.py)*)
(*                                                                         *)
(* Text is modelled as sequences of one-character strings, so that the     *)
(* regular expressions of the dashboard script are evaluated character by  *)
(* character.  Prices are integers in units of 1/PriceScale.               *)
(*                                                                         *)
(* Beside the dashboard the module models, each under a specification of   *)
(* its own, the legacy gap analysis (src/daily_tracker.py), the snapshot    *)
(* comparator (analysis/comparator.py), the pagination of the Limitless     *)
(* client (api/limitless.py) and the volume history of the launched-project *)
(* store (data/launched.py).                                               *)
(***************************************************************************)
EXTENDS Integers, Sequences, FiniteSets, TLC

VARIABLES
    pc,              \* "input" before generate_html_dashboard, "page" after
    polyProjects,    \* projects_data as built from Polymarket (dashboard.py:119-128)
    limitlessData,   \* limitless_data["projects"], in dict/Object.entries order
    campaigns,       \* leaderboardData, kaitoData, cookieData, wallchainData of the page
    projectsData,    \* const projectsData of the page (dashboard.py:1174)
    gapRendered,     \* renderGapAnalysis has run
    projects,        \* renderGapAnalysis: projects (after projects.sort)
    html,            \* renderGapAnalysis: the cards written to the container
    totalMatched,    \* renderGapAnalysis: totalMatched
    totalUnmatched,  \* renderGapAnalysis: totalUnmatched
    arbRendered,     \* renderArbCalculator has run
    opportunities,   \* renderArbCalculator: opportunities (after sort)
    arbResult,       \* last outcome of updateArbCalc
    legacyRendered,  \* the renderGapAnalysis of daily_tracker.py has run
    legacyProjects,  \* daily_tracker.py renderGapAnalysis: projects (after projects.sort)
    current,         \* compare_snapshots: the markets of the current snapshot, in dict order
    previous,        \* compare_snapshots: yes_price of the previous snapshot, by market
    changes,         \* compare_snapshots: the list returned
    comparePc,       \* "input" before compare_snapshots, "done" after
    responses,       \* fetch_active_markets: what the API answers to request 1, 2, ...
    page,            \* fetch_active_markets: page
    all_markets,     \* fetch_active_markets: all_markets
    fetchPc,         \* "loop" inside while True, "returned" after return
    stored,          \* LaunchedProjectStore: data["projects"] of the file at self.path
    returned         \* LaunchedProjectStore: what the last call returned

dashVars == <<pc, polyProjects, limitlessData, campaigns, projectsData, gapRendered, projects,
              html, totalMatched, totalUnmatched, arbRendered, opportunities, arbResult>>
legacyVars == <<legacyRendered, legacyProjects>>
compareVars == <<current, previous, changes, comparePc>>
fetchVars == <<responses, page, all_markets, fetchPc>>
storeVars == <<stored, returned>>
vars == <<dashVars, legacyVars, compareVars, fetchVars, storeVars>>

\* null (no project, no key): keys and names are non-empty sequences
Null == <<>>

----------------------------------------------------------------------------
(* Characters *)

UpperToLower ==
    [c \in {"A","B","C","D","E","F","G","H","I","J","K","L","M","N","O","P","Q",
            "R","S","T","U","V","W","X","Y","Z"} |->
       CASE c = "A" -> "a" [] c = "B" -> "b" [] c = "C" -> "c" [] c = "D" -> "d"
         [] c = "E" -> "e" [] c = "F" -> "f" [] c = "G" -> "g" [] c = "H" -> "h"
         [] c = "I" -> "i" [] c = "J" -> "j" [] c = "K" -> "k" [] c = "L" -> "l"
         [] c = "M" -> "m" [] c = "N" -> "n" [] c = "O" -> "o" [] c = "P" -> "p"
         [] c = "Q" -> "q" [] c = "R" -> "r" [] c = "S" -> "s" [] c = "T" -> "t"
         [] c = "U" -> "u" [] c = "V" -> "v" [] c = "W" -> "w" [] c = "X" -> "x"
         [] c = "Y" -> "y" [] c = "Z" -> "z"]

LowerChar(c) == IF c \in DOMAIN UpperToLower THEN UpperToLower[c] ELSE c

Digits == {"0","1","2","3","4","5","6","7","8","9"}

LowerLetters == {"a","b","c","d","e","f","g","h","i","j","k","l","m","n","o","p",
                 "q","r","s","t","u","v","w","x","y","z"}

IsSpace(c) == c = " "

\* String.prototype.toLowerCase / str.lower
toLowerCase(s) == [i \in 1..Len(s) |-> LowerChar(s[i])]

\* s.substring(i-1, j-1) with 1-based inclusive bounds i..j
Slice(s, i, j) == IF j < i THEN <<>> ELSE SubSeq(s, i, j)

\* the literal lit occurs in s at position i, compared case-insensitively
LitAt(s, i, lit) ==
    /\ i >= 1
    /\ i + Len(lit) - 1 <= Len(s)
    /\ \A k \in 1..Len(lit) : LowerChar(s[i + k - 1]) = lit[k]

\* a.includes(b)
includes(a, b) ==
    \E i \in 1..(Len(a) - Len(b) + 1) : SubSeq(a, i, i + Len(b) - 1) = b

\* first position >= i of s whose character is not in the class, Len(s)+1 if none
RECURSIVE SkipWhile(_, _, _)
SkipWhile(s, i, class) ==
    IF i <= Len(s) /\ s[i] \in class THEN SkipWhile(s, i + 1, class) ELSE i

\* s.replace(/\s+/g, ' ')
RECURSIVE collapseSpaces(_)
collapseSpaces(s) ==
    IF s = <<>> THEN <<>>
    ELSE IF IsSpace(Head(s))
         THEN <<" ">> \o collapseSpaces(Slice(s, SkipWhile(s, 1, {" "}), Len(s)))
         ELSE <<Head(s)>> \o collapseSpaces(Tail(s))

----------------------------------------------------------------------------
(* Name normalisation *)

IsLowerAlnum(c) == c \in LowerLetters \cup Digits

\* renderGapAnalysis / renderArbCalculator: s.toLowerCase().replace(/[^a-z0-9]/g, '')
\* (the same function as utils/parsers.py normalize_project_name)
normalizeProject(s) == SelectSeq(toLowerCase(s), IsLowerAlnum)

IsNotPySeparator(c) == c \notin {" ", "-", "_"}

\* generate_html_dashboard: s.lower().replace(" ", "").replace("-", "").replace("_", "")
normalize(s) == SelectSeq(toLowerCase(s), IsNotPySeparator)

----------------------------------------------------------------------------
(* Match-key extraction *)

DigitDot == Digits \cup {"."}

\* the unit letter follows at j2, after the digits and the white space
UnitAt(q, j2) == j2 <= Len(q) /\ LowerChar(q[j2]) \in {"b", "m", "k"}

\* [\d.]+ starts at j0 and \s*(b|m|k) follows it
DigitsAndUnitAt(q, j0) ==
    /\ j0 <= Len(q)
    /\ q[j0] \in DigitDot
    /\ UnitAt(q, SkipWhile(q, SkipWhile(q, j0, DigitDot), {" "}))

\* /\$?([\d.]+)\s*(b|m|k)/i matches with its first character at i
ThresholdAt(q, i) ==
    IF q[i] = "$" THEN DigitsAndUnitAt(q, i + 1) ELSE DigitsAndUnitAt(q, i)

\* (match[1] + match[2]).toLowerCase() when group 1 is q[j0..j1-1]
ThresholdText(q, j0, j1) ==
    toLowerCase(Slice(q, j0, j1 - 1) \o <<q[SkipWhile(q, j1, {" "})]>>)

ThresholdFrom(q, j0) == ThresholdText(q, j0, SkipWhile(q, j0, DigitDot))

\* the key of the match that starts at i
ThresholdMatch(q, i) ==
    IF q[i] = "$" THEN ThresholdFrom(q, i + 1) ELSE ThresholdFrom(q, i)

\* the first position from i on where the pattern matches, 0 if there is none
RECURSIVE FirstThresholdAt(_, _)
FirstThresholdAt(q, i) ==
    IF i > Len(q) THEN 0
    ELSE IF ThresholdAt(q, i) THEN i
    ELSE FirstThresholdAt(q, i + 1)

ThresholdOrNull(q, i) == IF i = 0 THEN Null ELSE ThresholdMatch(q, i)

\* extractThreshold (dashboard.py) / extract_threshold (utils/parsers.py):
\* (match[1] + match[2]).toLowerCase() of the leftmost match, else null
extractThreshold(q) == ThresholdOrNull(q, FirstThresholdAt(q, 1))

Months ==
    << <<"j","a","n","u","a","r","y">>,
       <<"f","e","b","r","u","a","r","y">>,
       <<"m","a","r","c","h">>,
       <<"a","p","r","i","l">>,
       <<"m","a","y">>,
       <<"j","u","n","e">>,
       <<"j","u","l","y">>,
       <<"a","u","g","u","s","t">>,
       <<"s","e","p","t","e","m","b","e","r">>,
       <<"o","c","t","o","b","e","r">>,
       <<"n","o","v","e","m","b","e","r">>,
       <<"d","e","c","e","m","b","e","r">> >>

\* position after the month name that starts at i, 0 when none does
RECURSIVE MonthEndFrom(_, _, _)
MonthEndFrom(q, i, m) ==
    IF m > Len(Months) THEN 0
    ELSE IF LitAt(q, i, Months[m]) THEN i + Len(Months[m])
    ELSE MonthEndFrom(q, i, m + 1)

MonthEnd(q, i) == MonthEndFrom(q, i, 1)

FourDigitsAt(q, i) == i >= 1 /\ i + 3 <= Len(q) /\ \A k \in 0..3 : q[i + k] \in Digits

\* by\s+ at i: the position after it, 0 when it does not match
AfterWs(a, b) == IF b > a THEN b ELSE 0

AfterBy(q, i) ==
    IF LitAt(q, i, <<"b","y">>) THEN AfterWs(i + 2, SkipWhile(q, i + 2, {" "})) ELSE 0

\* (?:,?\s*(\d{4}))? at e: the position after it
YearEnd1(e, g, hasYear) == IF hasYear THEN g + 4 ELSE e
YearAfterComma(q, e, g) == YearEnd1(e, g, FourDigitsAt(q, g))
OptionalYear1(q, e) ==
    IF e <= Len(q) /\ q[e] = ","
    THEN YearAfterComma(q, e, SkipWhile(q, e + 1, {" "}))
    ELSE YearAfterComma(q, e, SkipWhile(q, e, {" "}))

\* (\d{1,2}) at d, then the optional year
DayAndYear(q, d) ==
    IF d > Len(q) \/ q[d] \notin Digits THEN 0
    ELSE IF d + 1 <= Len(q) /\ q[d + 1] \in Digits THEN OptionalYear1(q, d + 2)
    ELSE OptionalYear1(q, d + 1)

\* \s+(\d{1,2})... at c, the position after the month (0 when there was no month)
AfterMonth1(q, c, d) == IF c # 0 /\ d > c THEN DayAndYear(q, d) ELSE 0
MonthDay(q, c) == AfterMonth1(q, c, SkipWhile(q, c, {" "}))
Pattern1From(q, b) == IF b = 0 THEN 0 ELSE MonthDay(q, MonthEnd(q, b))

\* /by\s+(january|...|december)\s+(\d{1,2})(?:,?\s*(\d{4}))?/i anchored at i:
\* position after the match, 0 when it does not match
DatePattern1End(q, i) == Pattern1From(q, AfterBy(q, i))

\* \s*(\d{4})? at g0 (after the quarter)
YearEnd2(q, g) == IF FourDigitsAt(q, g) THEN g + 4 ELSE g
Pattern2From(q, b) ==
    IF /\ b # 0
       /\ LitAt(q, b, <<"q">>)
       /\ b + 1 <= Len(q)
       /\ q[b + 1] \in {"1", "2", "3", "4"}
    THEN YearEnd2(q, SkipWhile(q, b + 2, {" "}))
    ELSE 0

\* /by\s+(q[1-4])\s*(\d{4})?/i anchored at i
DatePattern2End(q, i) == Pattern2From(q, AfterBy(q, i))

\* (?:\s+(\d{4}))? at c
YearEnd3(q, c, h) == IF h > c /\ FourDigitsAt(q, h) THEN h + 4 ELSE c
OptionalYear3(q, c) == IF c = 0 THEN 0 ELSE YearEnd3(q, c, SkipWhile(q, c, {" "}))

\* (end of\s+)? at b: the position where the month must start
AfterEndOf(b, eo, b2, m2) == IF b2 > eo /\ m2 # 0 THEN b2 ELSE b
EndOfThenMonth(q, b, b2) == AfterEndOf(b, b + 6, b2, MonthEnd(q, b2))
MonthStart3(q, b) ==
    IF LitAt(q, b, <<"e","n","d"," ","o","f">>)
    THEN EndOfThenMonth(q, b, SkipWhile(q, b + 6, {" "}))
    ELSE b

Pattern3From(q, b) ==
    IF b = 0 THEN 0 ELSE OptionalYear3(q, MonthEnd(q, MonthStart3(q, b)))

\* /by\s+(end of\s+)?(january|...|december)(?:\s+(\d{4}))?/i anchored at i
DatePattern3End(q, i) == Pattern3From(q, AfterBy(q, i))

DatePatternEnd(n, q, i) ==
    CASE n = 1 -> DatePattern1End(q, i)
      [] n = 2 -> DatePattern2End(q, i)
      [] n = 3 -> DatePattern3End(q, i)

\* match[0].toLowerCase().replace(/\s+/g, ' ') of the match q[i..end-1]
DateText(q, i, end) == collapseSpaces(toLowerCase(Slice(q, i, end - 1)))

\* q.match(pattern n), searching from i on: the date text of the leftmost match,
\* null when there is none
RECURSIVE DateMatchFrom(_, _, _)
DateMatchFrom(n, q, i) ==
    IF i > Len(q) THEN Null
    ELSE IF DatePatternEnd(n, q, i) # 0 THEN DateText(q, i, DatePatternEnd(n, q, i))
    ELSE DateMatchFrom(n, q, i + 1)

\* for (const pattern of datePatterns): the first pattern from n on that matches
RECURSIVE DateFromPattern(_, _)
DateFromPattern(n, q) ==
    IF n > 3 THEN Null
    ELSE IF DateMatchFrom(n, q, 1) # Null THEN DateMatchFrom(n, q, 1)
    ELSE DateFromPattern(n + 1, q)

\* extractDate: the first of the three patterns that matches somewhere in q gives
\* match[0].toLowerCase().replace(/\s+/g, ' '); null when none matches
extractDate(q) == DateFromPattern(1, q)

----------------------------------------------------------------------------
(* The project names and market questions of the model *)

NameSol    == <<"S","o","l">>
NameSolana == <<"S","o","l","a","n","a">>
NameSolDot == <<"S","o","l",".","a","n","a">>
NameMark   == <<"?">>
NameZama   == <<"Z","a","m","a">>

NamePool == {NameSol, NameSolana, NameSolDot, NameMark, NameZama}

Q500M     == <<"$","5","0","0","M">>
Q05B      == <<"$","0",".","5","B">>
Q2BMay    == <<"$","2","B"," ","b","y"," ","M","a","y"," ","1">>
Q800MMay  == <<"$","8","0","0","M"," ","b","y"," ","M","a","y"," ","1">>
QMay      == <<"b","y"," ","M","a","y"," ","1">>
QNoKey    == <<"T","G","E","?">>

QuestionPool == {Q500M, Q05B, Q2BMay, Q800MMay, QMay, QNoKey}

\* questions that name a day, with a year and without
QMay2026  == <<"b","y"," ","M","a","y"," ","1",","," ","2","0","2","6">>
QMay2027  == <<"b","y"," ","M","a","y"," ","1",","," ","2","0","2","7">>

DatedPool == {QMay, QMay2026, QMay2027}

\* normalizeProject and normalize of each project name, evaluated once
NormalizedProject == [n \in NamePool |-> normalizeProject(n)]
NormalizedPy == [n \in NamePool |-> normalize(n)]

\* normalizeProject(polyProject.name), normalizeProject(lName) and
\* normalize(lim_name) as the alignment code calls them
projectKey(name) == NormalizedProject[name]
pyKey(name) == NormalizedPy[name]

\* extractThreshold and extractDate of each question, evaluated once
ThresholdOfQuestion == [q \in QuestionPool \cup DatedPool |-> extractThreshold(q)]
DateOfQuestion == [q \in QuestionPool \cup DatedPool |-> extractDate(q)]

\* extractThreshold(lm.title || lm.question || '') and extractDate(...) as
\* findMarketMatch and renderArbCalculator call them
thresholdKey(q) == ThresholdOfQuestion[q]
dateKey(q) == DateOfQuestion[q]

----------------------------------------------------------------------------
(* Numbers: prices are integers in units of 1/PriceScale; quotients are     *)
(* fractions <<n, d>> in lowest terms with d > 0; <<1, 0>> is Infinity and  *)
(* <<0, 0>> is NaN, the values JavaScript gives a division by zero.         *)

PriceScale == 40

Abs(x) == IF x < 0 THEN -x ELSE x

RECURSIVE Gcd(_, _)
Gcd(a, b) == IF b = 0 THEN a ELSE Gcd(b, a % b)

Infinity == <<1, 0>>
NaN == <<0, 0>>

Sign(x) == IF x > 0 THEN 1 ELSE IF x < 0 THEN -1 ELSE 0

Reduced(n, d, g) == <<n \div g, d \div g>>

\* the fraction n/d as JavaScript's n / d
Frac(n, d) ==
    IF d = 0 THEN <<Sign(n), 0>> ELSE Reduced(Sign(d) * n, Abs(d), Gcd(Abs(n), Abs(d)))

FMul(x, y) == IF x[2] = 0 \/ y[2] = 0
              THEN <<Sign(x[1]) * Sign(y[1]), 0>>
              ELSE Frac(x[1] * y[1], x[2] * y[2])

FSub(x, y) == IF x[2] = 0 /\ y[2] = 0
              THEN (IF x[1] = 0 \/ y[1] = 0 \/ x[1] = y[1] THEN NaN ELSE x)
              ELSE IF x[2] = 0 THEN x
              ELSE IF y[2] = 0 THEN <<-y[1], 0>>
              ELSE Frac(x[1] * y[2] - y[1] * x[2], x[2] * y[2])

FDiv(x, y) == IF x[2] = 0 /\ y[2] = 0 THEN NaN
              ELSE IF x[2] = 0 THEN (IF y[1] < 0 THEN <<-x[1], 0>> ELSE x)
              ELSE IF y[2] = 0 THEN (IF y[1] = 0 THEN NaN ELSE <<0, 1>>)
              ELSE Frac(x[1] * y[2], x[2] * y[1])

\* x > y of JavaScript (false when either is NaN)
FGt(x, y) ==
    IF x = NaN \/ y = NaN THEN FALSE
    ELSE IF x[2] = 0 /\ y[2] = 0 THEN x[1] > y[1]
    ELSE IF x[2] = 0 THEN x[1] > 0
    ELSE IF y[2] = 0 THEN y[1] < 0
    ELSE x[1] * y[2] > y[1] * x[2]

\* a price or a dollar amount as a fraction
Price(p) == Frac(p, PriceScale)
Num(n) == <<n, 1>>

----------------------------------------------------------------------------
(* Sequences *)

Min(S) == CHOOSE x \in S : \A y \in S : x <= y

RECURSIVE SumSeq(_)
SumSeq(s) == IF s = <<>> THEN 0 ELSE Head(s) + SumSeq(Tail(s))

RECURSIVE Flatten(_)
Flatten(ss) == IF ss = <<>> THEN <<>> ELSE Head(ss) \o Flatten(Tail(ss))

\* a < b for sort keys <<k1, k2>>, compared lexicographically
KeyLess(a, b) == a[1] < b[1] \/ (a[1] = b[1] /\ a[2] < b[2])

\* the place of element i in the stable sort by keys: behind the elements of
\* smaller key and the earlier elements of equal key
SortedPlace(keys, i) ==
    1 + Cardinality({j \in DOMAIN keys : \/ KeyLess(keys[j], keys[i])
                                         \/ (keys[j] = keys[i] /\ j < i)})

\* s sorted by ascending keys[i], stably (list.sort of Python, Array.prototype.sort
\* of ES2019 with a comparator that orders by the key)
StableSort(s, keys) ==
    [p \in 1..Len(s) |-> s[CHOOSE i \in 1..Len(s) : SortedPlace(keys, i) = p]]

----------------------------------------------------------------------------
(* generate_html_dashboard: the Limitless-only projects (dashboard.py:130-205) *)

\* market_info of a market of a Limitless-only project (dashboard.py:180-190)
LimitlessMarketInfo(market) ==
    [question   |-> market.title,
     closed     |-> FALSE,
     newPrice   |-> market.yes_price,
     yesTokenId |-> Null,
     limSlug    |-> market.slug]

\* the entry appended for a Limitless-only project (dashboard.py:195-202); without
\* previous Limitless data every change is 0
LimitlessOnlyProject(limProject) ==
    [name           |-> limProject.name,
     markets        |-> [i \in 1..Len(limProject.markets) |->
                            LimitlessMarketInfo(limProject.markets[i])],
     totalChange    |-> 0,
     hasOpenMarkets |-> TRUE,
     source         |-> "limitless"]

\* normalize(lim_name) not in poly_names, and the project has markets
IsLimitlessOnly(limProject, pd) ==
    /\ pyKey(limProject.name) \notin {pyKey(pd[i].name) : i \in 1..Len(pd)}
    /\ limProject.markets # <<>>

\* key of projects_data.sort(key=lambda x: (not x["hasOpenMarkets"], -x["totalChange"]))
ProjectSortKey(p) == <<IF p.hasOpenMarkets THEN 0 ELSE 1, -p.totalChange>>

SortProjectsData(pd) == StableSort(pd, [i \in 1..Len(pd) |-> ProjectSortKey(pd[i])])

\* the Limitless-only projects, in the order of limitless_data["projects"]
LimitlessOnlyProjects(pd, lim) ==
    LET only == SelectSeq(lim, LAMBDA l : IsLimitlessOnly(l, pd))
    IN  [k \in 1..Len(only) |-> LimitlessOnlyProject(only[k])]

\* projects_data after the block "Add Limitless-only projects"
AddLimitlessOnly(pd, lim) ==
    IF Len(lim) = 0 THEN pd ELSE SortProjectsData(pd \o LimitlessOnlyProjects(pd, lim))

----------------------------------------------------------------------------
(* renderGapAnalysis (dashboard.py:1945-2202) *)

\* an alignment test that accepts equal names only
NamesEqual(lNorm, pNorm) == lNorm = pNorm

\* the alignment test of findLimitlessProject and of renderArbCalculator
NamesAlign(lNorm, pNorm) ==
    lNorm = pNorm \/ includes(lNorm, pNorm) \/ includes(pNorm, lNorm)

\* the first Limitless project from index i on whose normalized name aligns with
\* pNorm, 0 when there is none
RECURSIVE FirstAligned(_, _, _)
FirstAligned(lim, pNorm, i) ==
    IF i > Len(lim) THEN 0
    ELSE IF NamesAlign(projectKey(lim[i].name), pNorm) THEN i
    ELSE FirstAligned(lim, pNorm, i + 1)

\* a lookup that settles for the first Limitless project
findFirstProject(polyName, lim) == IF lim = <<>> THEN 0 ELSE 1

\* findLimitlessProject: index in limitlessData of the first project whose
\* normalized name aligns with polyName, 0 for null
findLimitlessProject(polyName, lim) == FirstAligned(lim, projectKey(polyName), 1)

NoLimitlessProject == [found |-> FALSE, name |-> Null, markets |-> <<>>]

\* { name: lName, data: lData } or null
LimitlessProjectAt(lim, lp) ==
    IF lp = 0 THEN NoLimitlessProject
    ELSE [found |-> TRUE, name |-> lim[lp].name, markets |-> lim[lp].markets]

\* the first market from index k on that is not already matched and whose key,
\* taken from its title by keyOf, is non-null and equals key; 0 when there is none
RECURSIVE FirstWithKey(_, _, _, _, _)
FirstWithKey(limitlessMarkets, alreadyMatched, keyOf, key, k) ==
    IF k > Len(limitlessMarkets) THEN 0
    ELSE IF /\ limitlessMarkets[k].slug \notin alreadyMatched
            /\ keyOf[limitlessMarkets[k].title] # Null
            /\ keyOf[limitlessMarkets[k].title] = key
         THEN k
    ELSE FirstWithKey(limitlessMarkets, alreadyMatched, keyOf, key, k + 1)

\* the loop over markets for one kind of key; when the Polymarket question has no
\* such key the loop is not entered
MatchByKey(limitlessMarkets, alreadyMatched, keyOf, polyKey) ==
    IF polyKey = Null THEN 0
    ELSE FirstWithKey(limitlessMarkets, alreadyMatched, keyOf, polyKey, 1)

\* the date loop runs when the threshold loop returned nothing
ThresholdThenDate(byThreshold, limitlessMarkets, alreadyMatched, polyQuestion) ==
    IF byThreshold # 0 THEN byThreshold
    ELSE MatchByKey(limitlessMarkets, alreadyMatched, DateOfQuestion, dateKey(polyQuestion))

\* a matcher that returns the first market not already matched, whatever the keys
RECURSIVE findUnmatchedMarket(_, _, _)
findUnmatchedMarket(polyQuestion, limitlessMarkets, alreadyMatched) ==
    IF limitlessMarkets = <<>> THEN 0
    ELSE IF limitlessMarkets[1].slug \notin alreadyMatched THEN 1
    ELSE IF findUnmatchedMarket(polyQuestion, Tail(limitlessMarkets), alreadyMatched) = 0 THEN 0
    ELSE 1 + findUnmatchedMarket(polyQuestion, Tail(limitlessMarkets), alreadyMatched)

\* findMarketMatch: index in limitlessMarkets of the match, 0 for null
findMarketMatch(polyQuestion, limitlessMarkets, alreadyMatched) ==
    ThresholdThenDate(MatchByKey(limitlessMarkets, alreadyMatched, ThresholdOfQuestion,
                                 thresholdKey(polyQuestion)),
                      limitlessMarkets, alreadyMatched, polyQuestion)

\* the object built from market_info m (dashboard.py:2046-2051); pmId records
\* which market it is: its token, or its Limitless slug when it has none
PolyMarketOf(m) ==
    [question   |-> m.question,
     polyPrice  |-> m.newPrice,
     yesTokenId |-> m.yesTokenId,
     pmId       |-> IF m.yesTokenId # Null THEN m.yesTokenId ELSE m.limSlug]

OpenMarkets(markets) == SelectSeq(markets, LAMBDA m : ~m.closed)

MapPolyMarkets(open) == [i \in 1..Len(open) |-> PolyMarketOf(open[i])]

\* polyMarkets of a project: its markets that are not closed (dashboard.py:2045-2052)
OpenPolyMarkets(polyProject) == MapPolyMarkets(OpenMarkets(polyProject.markets))

\* a ratio that is 0 whenever there is no depth
RatioOfDepth(volume, depth) == IF depth > 0 THEN Frac(volume, depth) ELSE Num(0)

\* ratio = depth > 0 ? volume / depth : (volume > 0 ? Infinity : 0)
Ratio(volume, depth) ==
    IF depth > 0 THEN Frac(volume, depth) ELSE IF volume > 0 THEN Infinity ELSE Num(0)

MatchedMarketWith(pm, match, spread, ratio) ==
    [question        |-> pm.question,
     polyPrice       |-> pm.polyPrice,
     limPrice        |-> match.yes_price,
     spread          |-> spread,
     absSpread       |-> Abs(spread),
     polyYesTokenId  |-> pm.yesTokenId,
     pmId            |-> pm.pmId,
     limSlug         |-> match.slug,
     volume          |-> match.volume,
     ratio           |-> ratio,
     depth           |-> match.depth,
     isThin          |-> FGt(ratio, Num(10))]

\* a record whose spread has lost its sign
MatchedMarketUnsigned(pm, match) ==
    MatchedMarketWith(pm, match, Abs(pm.polyPrice - match.yes_price) * 100,
                      Ratio(match.volume, match.depth))

\* the record pushed to matchedMarkets (dashboard.py:2063-2087)
MatchedMarket(pm, match) ==
    MatchedMarketWith(pm, match, (pm.polyPrice - match.yes_price) * 100,
                      Ratio(match.volume, match.depth))

\* a loop that lists a matched market among the unmatched ones as well
AfterMatchBoth(acc, pm, limMarkets, match) ==
    IF match # 0
    THEN [matchedMarkets   |-> Append(acc.matchedMarkets, MatchedMarket(pm, limMarkets[match])),
          unmatchedMarkets |-> Append(acc.unmatchedMarkets, pm),
          matchedLimSlugs  |-> acc.matchedLimSlugs \cup {limMarkets[match].slug}]
    ELSE [acc EXCEPT !.unmatchedMarkets = Append(@, pm)]

\* the body of polyMarkets.forEach for pm, with the result of findMarketMatch
AfterMatch(acc, pm, limMarkets, match) ==
    IF match # 0
    THEN [matchedMarkets   |-> Append(acc.matchedMarkets, MatchedMarket(pm, limMarkets[match])),
          unmatchedMarkets |-> acc.unmatchedMarkets,
          matchedLimSlugs  |-> acc.matchedLimSlugs \cup {limMarkets[match].slug}]
    ELSE [acc EXCEPT !.unmatchedMarkets = Append(@, pm)]

\* a matcher that forgets which Limitless markets are already matched
MatchForgetful(pm, limMarkets, hasLim, alreadyMatched) ==
    IF hasLim THEN findMarketMatch(pm.question, limMarkets, {}) ELSE 0

\* if (limitlessProject && limitlessProject.data.markets) findMarketMatch(...)
MatchFor(pm, limMarkets, hasLim, alreadyMatched) ==
    IF hasLim THEN findMarketMatch(pm.question, limMarkets, alreadyMatched) ELSE 0

\* polyMarkets.forEach (dashboard.py:2059-2098) from market k on; acc holds
\* matchedMarkets, unmatchedMarkets and matchedLimSlugs
RECURSIVE MatchPolyMarkets(_, _, _, _, _)
MatchPolyMarkets(polyMarkets, limMarkets, hasLim, acc, k) ==
    IF k > Len(polyMarkets) THEN acc
    ELSE MatchPolyMarkets(polyMarkets, limMarkets, hasLim,
                          AfterMatch(acc, polyMarkets[k], limMarkets,
                                     MatchFor(polyMarkets[k], limMarkets, hasLim,
                                              acc.matchedLimSlugs)),
                          k + 1)

NothingMatched == [matchedMarkets |-> <<>>, unmatchedMarkets |-> <<>>, matchedLimSlugs |-> {}]

\* the record pushed to limOnlyMarkets (dashboard.py:2107-2118)
LimOnlyMarket(market) ==
    [question |-> market.title,
     limPrice |-> market.yes_price,
     limSlug  |-> market.slug,
     volume   |-> market.volume,
     depth    |-> market.depth]

\* a filter that lets matched markets through
OpenMatchedOrNot(limMarkets, matchedLimSlugs) ==
    SelectSeq(limMarkets, LAMBDA m : ~m.closed)

\* if (!matchedLimSlugs.has(market.slug)) ... if (market.closed) return
UnmatchedOpen(limMarkets, matchedLimSlugs) ==
    SelectSeq(limMarkets, LAMBDA m : m.slug \notin matchedLimSlugs /\ ~m.closed)

MapLimOnly(rest) == [i \in 1..Len(rest) |-> LimOnlyMarket(rest[i])]

\* Limitless-only markets of the aligned project (dashboard.py:2101-2121)
LimOnlyMarkets(limMarkets, matchedLimSlugs) ==
    MapLimOnly(UnmatchedOpen(limMarkets, matchedLimSlugs))

MaxOf(S) == CHOOSE x \in S : \A y \in S : x >= y

\* matchedMarkets.sort((a, b) => b.absSpread - a.absSpread)
SortMatched(ms) == StableSort(ms, [i \in 1..Len(ms) |-> <<-ms[i].absSpread, 0>>])

\* maxSpread (dashboard.py:2126)
MaxSpread(ms) == IF ms = <<>> THEN 0 ELSE MaxOf({ms[i].absSpread : i \in 1..Len(ms)})

\* s.replace(/-/g, '')
IsNotDash(c) == c # "-"

\* kaitoStatus (dashboard.py:2133-2140)
KaitoStatus(name, camp) ==
    IF \E k \in camp.kaitoPre : normalizeProject(k) = projectKey(name)
    THEN "pre-tge"
    ELSE IF \E k \in camp.kaitoPost : normalizeProject(k) = projectKey(name)
         THEN "post-tge"
         ELSE "none"

\* hasCookieCampaign / hasWallchainCampaign (dashboard.py:2143-2148)
HasSlugCampaign(name, slugs) ==
    \E sl \in slugs : SelectSeq(sl, IsNotDash) = projectKey(name)

\* projects.push({...}) (dashboard.py:2154-2172); limName records which Limitless
\* project findLimitlessProject returned, source where the entry came from
ProjectRecord(polyProject, limitlessProject, acc, camp) ==
    [name             |-> polyProject.name,
     hasLimitless     |-> limitlessProject.found,
     limName          |-> limitlessProject.name,
     matchedMarkets   |-> SortMatched(acc.matchedMarkets),
     unmatchedMarkets |-> acc.unmatchedMarkets,
     limOnlyMarkets   |-> LimOnlyMarkets(limitlessProject.markets, acc.matchedLimSlugs),
     maxSpread        |-> MaxSpread(acc.matchedMarkets),
     kaitoStatus      |-> KaitoStatus(polyProject.name, camp),
     hasCookieCampaign    |-> HasSlugCampaign(polyProject.name, camp.cookie),
     hasWallchainCampaign |-> HasSlugCampaign(polyProject.name, camp.wallchain),
     leaderboard      |-> toLowerCase(polyProject.name) \in camp.leaderboard,
     source           |-> polyProject.source]

GapProjectWith(polyProject, limitlessProject, camp) ==
    ProjectRecord(polyProject, limitlessProject,
                  MatchPolyMarkets(OpenPolyMarkets(polyProject), limitlessProject.markets,
                                   limitlessProject.found, NothingMatched, 1),
                  camp)

\* one iteration of projectsData.filter(p => p.hasOpenMarkets).forEach
\* (dashboard.py:2043-2173): the record pushed to projects
GapProject(polyProject, lim, camp) ==
    GapProjectWith(polyProject,
                   LimitlessProjectAt(lim, findLimitlessProject(polyProject.name, lim)),
                   camp)

\* the flag a project card is rendered with: the badge NOT ON LIMITLESS of the
\* legacy page (daily_tracker.py:1451); dashboard.py computes from the same test
\* isPriority and isHighPriority and the first group of projects.sort
NotOnLimitless(project) == ~project.hasLimitless

HasLeaderboard(a) ==
    \/ a.leaderboard
    \/ a.kaitoStatus = "pre-tge"
    \/ a.hasCookieCampaign
    \/ a.hasWallchainCampaign

\* the order of projects.sort (dashboard.py:2179-2202): priority 1 (not on
\* Limitless, has a leaderboard) first, then projects with matched markets, then
\* the rest; by maxSpread descending within each
GapSortKey(a) ==
    <<IF ~a.hasLimitless /\ HasLeaderboard(a) THEN 0
      ELSE IF Len(a.matchedMarkets) > 0 THEN 1 ELSE 2,
      -a.maxSpread>>

WithOpenMarkets(pd) == SelectSeq(pd, LAMBDA p : p.hasOpenMarkets)

MapGapProjects(open, lim, camp) == [i \in 1..Len(open) |-> GapProject(open[i], lim, camp)]

\* projects of renderGapAnalysis before projects.sort
GapProjectsUnsorted(pd, lim, camp) == MapGapProjects(WithOpenMarkets(pd), lim, camp)

SortGapProjects(ps) == StableSort(ps, [i \in 1..Len(ps) |-> GapSortKey(ps[i])])

\* projects of renderGapAnalysis after projects.sort
GapProjects(pd, lim, camp) == SortGapProjects(GapProjectsUnsorted(pd, lim, camp))

\* a colouring that counts the boundaries in
spreadColorInclusive(absSpread) ==
    IF absSpread >= 10 * PriceScale THEN "red"
    ELSE IF absSpread >= 5 * PriceScale THEN "yellow"
    ELSE "text-secondary"

\* the colour of a spread; absSpread is in units of 1/PriceScale percentage points
\* m.absSpread > 10 ? 'var(--red)' : (m.absSpread > 5 ? 'var(--yellow)' : ...)
spreadColor(absSpread) ==
    IF absSpread > 10 * PriceScale THEN "red"
    ELSE IF absSpread > 5 * PriceScale THEN "yellow"
    ELSE "text-secondary"

\* const ratio = m.ratio || 0
RatioOrZero(ratio) == IF ratio = NaN THEN Num(0) ELSE ratio

\* ratio > 10 ? 'var(--red)' : (ratio > 5 ? 'var(--yellow)' :
\*     (ratio < 2 ? 'var(--green)' : 'var(--text-secondary)'))
ratioColor(ratio) ==
    IF FGt(ratio, Num(10)) THEN "red"
    ELSE IF FGt(ratio, Num(5)) THEN "yellow"
    ELSE IF FGt(Num(2), ratio) THEN "green"
    ELSE "text-secondary"

MatchedRowWith(m, ratio) ==
    [question    |-> m.question,
     polyToken   |-> m.polyYesTokenId,
     limSlug     |-> m.limSlug,
     spreadColor |-> spreadColor(m.absSpread),
     spreadSign  |-> IF m.spread > 0 THEN "+" ELSE "",
     ratio       |-> ratio,
     ratioColor  |-> ratioColor(ratio)]

\* the table row of a matched market (dashboard.py:2289-2322)
MatchedRow(m) == MatchedRowWith(m, RatioOrZero(m.ratio))

\* the table row of a Polymarket-only market (dashboard.py:2347-2362)
UnmatchedRow(m) == [question |-> m.question, polyToken |-> m.yesTokenId]

\* the table row of a Limitless-only market (dashboard.py:2377-2398)
LimOnlyRow(m) == [question |-> m.question, limSlug |-> m.limSlug]

\* the card of one project (dashboard.py:2207-2405): a row for every matched,
\* every Polymarket-only and every Limitless-only market
GapCard(project) ==
    [name          |-> project.name,
     matchedRows   |-> [i \in 1..Len(project.matchedMarkets) |->
                           MatchedRow(project.matchedMarkets[i])],
     unmatchedRows |-> [i \in 1..Len(project.unmatchedMarkets) |->
                           UnmatchedRow(project.unmatchedMarkets[i])],
     limOnlyRows   |-> [i \in 1..Len(project.limOnlyMarkets) |->
                           LimOnlyRow(project.limOnlyMarkets[i])]]

\* html of renderGapAnalysis, one card per project
GapCards(ps) == [i \in 1..Len(ps) |-> GapCard(ps[i])]

CountMatched(ps) == SumSeq([i \in 1..Len(ps) |-> Len(ps[i].matchedMarkets)])
CountUnmatched(ps) == SumSeq([i \in 1..Len(ps) |-> Len(ps[i].unmatchedMarkets)])

----------------------------------------------------------------------------
(* The arbitrage calculator (dashboard.py:2715-2881) *)

SplitResult(budget, combinedCost, shares, limYesPrice, polyNoPrice, profit) ==
    [shares       |-> shares,
     limAmount    |-> FMul(shares, Price(limYesPrice)),
     polyAmount   |-> FMul(shares, Price(polyNoPrice)),
     payout       |-> shares,
     profit       |-> profit,
     profitPct    |-> FMul(FDiv(profit, Num(budget)), Num(100)),
     combinedCost |-> combinedCost]

\* a split whose profit is what the shares pay above one dollar
SplitAboveOne(budget, combinedCost, shares, limYesPrice, polyNoPrice) ==
    SplitResult(budget, combinedCost, shares, limYesPrice, polyNoPrice,
                FSub(shares, Num(1)))

\* profit = shares - budget
SplitOfShares(budget, combinedCost, shares, limYesPrice, polyNoPrice) ==
    SplitResult(budget, combinedCost, shares, limYesPrice, polyNoPrice,
                FSub(shares, Num(budget)))

\* a split that buys as many shares as the budget has dollars
SplitAtPar(budget, combinedCost, limYesPrice, polyNoPrice) ==
    SplitOfShares(budget, combinedCost, Num(budget), limYesPrice, polyNoPrice)

SplitAtCost(budget, combinedCost, limYesPrice, polyNoPrice) ==
    SplitOfShares(budget, combinedCost, FDiv(Num(budget), combinedCost),
                  limYesPrice, polyNoPrice)

\* calculateSplit(budget, limYesPrice, polyNoPrice); prices in units of 1/PriceScale
calculateSplit(budget, limYesPrice, polyNoPrice) ==
    SplitAtCost(budget, Price(limYesPrice + polyNoPrice), limYesPrice, polyNoPrice)

\* a test that lets a combined cost of exactly 1 through
IsArbOrEven(combinedCost) == combinedCost <= PriceScale

\* the test "if (combinedCost < 1)" of renderArbCalculator, in units of 1/PriceScale
IsArb(combinedCost) == combinedCost < PriceScale

\* opportunities.push({...}); pmId and limSlug record which markets pm and lm are
Opportunity(projectName, pm, lm, limYesPrice, polyNoPrice, combinedCost) ==
    [project      |-> projectName,
     question     |-> pm.question,
     limYes       |-> limYesPrice,
     polyNo       |-> polyNoPrice,
     polyYes      |-> pm.polyPrice,
     spread       |-> (PriceScale - combinedCost) * 100,
     combinedCost |-> combinedCost,
     pmId         |-> pm.pmId,
     limSlug      |-> lm.slug]

\* the body of "if (limThreshold && polyThreshold === limThreshold)"
ArbAtCost(projectName, pm, lm, limYesPrice, polyNoPrice) ==
    IF IsArb(limYesPrice + polyNoPrice)
    THEN <<Opportunity(projectName, pm, lm, limYesPrice, polyNoPrice,
                       limYesPrice + polyNoPrice)>>
    ELSE <<>>

ArbForPair(projectName, pm, limMarkets, lm) ==
    IF lm = 0 THEN <<>>
    ELSE ArbAtCost(projectName, pm, limMarkets[lm], limMarkets[lm].yes_price,
                   PriceScale - pm.polyPrice)

\* polyMarkets.forEach of renderArbCalculator for one Polymarket market
\* (dashboard.py:2792-2818): the opportunities it pushes (none or one)
ArbForMarket(projectName, pm, limMarkets) ==
    ArbForPair(projectName, pm, limMarkets,
               MatchByKey(limMarkets, {}, ThresholdOfQuestion, thresholdKey(pm.question)))

ArbForMarkets(projectName, pms, limMarkets) ==
    Flatten([i \in 1..Len(pms) |-> ArbForMarket(projectName, pms[i], limMarkets)])

ArbForAligned(polyProject, limitlessProject) ==
    IF ~limitlessProject.found THEN <<>>
    ELSE ArbForMarkets(polyProject.name, OpenPolyMarkets(polyProject),
                       limitlessProject.markets)

\* one iteration of projectsData.filter(p => p.hasOpenMarkets).forEach of
\* renderArbCalculator (dashboard.py:2774-2819)
ArbForProject(polyProject, lim) ==
    ArbForAligned(polyProject,
                  LimitlessProjectAt(lim, findLimitlessProject(polyProject.name, lim)))

MapArb(open, lim) == Flatten([i \in 1..Len(open) |-> ArbForProject(open[i], lim)])

SortOpportunities(opps) == StableSort(opps, [i \in 1..Len(opps) |-> <<-opps[i].spread, 0>>])

\* opportunities after opportunities.sort((a, b) => b.spread - a.spread)
Opportunities(pd, lim) == SortOpportunities(MapArb(WithOpenMarkets(pd), lim))

ShowResult(result) ==
    IF FGt(result.profit, Num(0))
    THEN [shown |-> "split", result |-> result]
    ELSE [shown |-> "no-arb", result |-> result]

\* updateArbCalc(rowId) with the number budget typed into the row's input
\* (dashboard.py:2738-2759); data-polyprice of the row holds opp.polyNo
updateArbCalc(opp, budget) ==
    IF budget <= 0 THEN [shown |-> "enter-budget", result |-> Null]
    ELSE ShowResult(calculateSplit(budget, opp.limYes, opp.polyNo))

----------------------------------------------------------------------------
(* Inputs *)

\* projects per platform, projects on both platforms together, markets of a project
\* per platform, markets of a project on both platforms together, and the largest
\* budget typed (in dollars)
MaxPolyProjects == 2
MaxLimProjects == 2
MaxProjects == 4
MaxMarkets == 2
MaxQuotes == 3
MaxBudget == 2

\* the largest difference of two prices of one question, in steps of 1/PriceScale
MaxSpreadSteps == 5

\* the largest factor a budget is multiplied by
MaxFactor == 3

\* the largest volume and order-book depth of a Limitless market (in dollars)
MaxVolume == 11
MaxDepth == 1

NoCampaigns ==
    [leaderboard |-> {}, kaitoPre |-> {}, kaitoPost |-> {}, cookie |-> {}, wallchain |-> {}]

SeqsOf(S, lo, hi) == UNION {[1..n -> S] : n \in lo..hi}

Distinct(s) == \A i, j \in 1..Len(s) : i # j => s[i] # s[j]

\* a project of projects_data (dashboard.py:57-128) with its events flattened to one
\* list of markets; ms gives question, closed and newPrice of each market
PolyProject(pi, name, ms, totalChange) ==
    [name           |-> name,
     markets        |-> [mi \in 1..Len(ms) |->
                            [question   |-> ms[mi].question,
                             closed     |-> ms[mi].closed,
                             newPrice   |-> ms[mi].newPrice,
                             yesTokenId |-> <<"token", pi, mi>>,
                             limSlug    |-> Null]],
     totalChange    |-> totalChange,
     hasOpenMarkets |-> \E mi \in 1..Len(ms) : ~ms[mi].closed,
     source         |-> "polymarket"]

\* a project of limitless_data["projects"] (api/limitless.py:135-153); ms gives
\* title, yes_price, closed, volume and liquidity.depth of each market
LimProject(li, name, ms) ==
    [name    |-> name,
     markets |-> [mi \in 1..Len(ms) |->
                     [title     |-> ms[mi].title,
                      slug      |-> <<"slug", li, mi>>,
                      yes_price |-> ms[mi].yes_price,
                      closed    |-> ms[mi].closed,
                      volume    |-> ms[mi].volume,
                      depth     |-> ms[mi].depth]]]

\* projects_data is sorted by (not hasOpenMarkets, -totalChange) (dashboard.py:123)
SortedByProjectKey(pd) ==
    \A i \in 1..(Len(pd) - 1) : ~KeyLess(ProjectSortKey(pd[i + 1]), ProjectSortKey(pd[i]))

\* k quarters of a dollar as a price
Quarter(k) == (k * PriceScale) \div 4

\* a market quoted at the same price on both platforms
TypicalPolyMarket(closed) == [question |-> Q2BMay, closed |-> closed, newPrice |-> Quarter(1)]
TypicalLimMarket ==
    [title |-> Q2BMay, yes_price |-> Quarter(1), closed |-> FALSE, volume |-> 0, depth |-> 0]

\* at most MaxProjects projects of every name and order, one market each, open or
\* closed; without a previous snapshot every change is 0 (dashboard.py:90)
InitNames ==
    \E pn \in SeqsOf(NamePool, 1, MaxPolyProjects), ln \in SeqsOf(NamePool, 0, MaxLimProjects) :
      \E pk \in [1..Len(pn) -> BOOLEAN] :
        /\ Len(pn) + Len(ln) <= MaxProjects
        /\ Distinct(pn)
        /\ Distinct(ln)
        /\ polyProjects = [i \in 1..Len(pn) |->
                              PolyProject(i, pn[i], <<TypicalPolyMarket(pk[i])>>, 0)]
        /\ SortedByProjectKey(polyProjects)
        /\ limitlessData = [i \in 1..Len(ln) |-> LimProject(i, ln[i], <<TypicalLimMarket>>)]

\* one project on each platform, open markets of every question, at most MaxQuotes
\* markets in all
InitQuestions ==
    \E pq \in SeqsOf(QuestionPool, 1, MaxMarkets), lq \in SeqsOf(QuestionPool, 0, MaxMarkets) :
        /\ Len(pq) + Len(lq) <= MaxQuotes
        /\ polyProjects = << PolyProject(1, NameZama,
                                 [i \in 1..Len(pq) |->
                                     [question |-> pq[i], closed |-> FALSE,
                                      newPrice |-> Quarter(3)]],
                                 0) >>
        /\ limitlessData = << LimProject(1, NameZama,
                                 [i \in 1..Len(lq) |->
                                     [title |-> lq[i], yes_price |-> Quarter(1), closed |-> FALSE,
                                      volume |-> 0, depth |-> 0]]) >>

\* an open market at every quarter of a dollar, or a closed one, resolved at price 1
PricePool ==
    {[closed |-> FALSE, price |-> Quarter(k)] : k \in 0..4}
      \cup {[closed |-> TRUE, price |-> PriceScale]}

\* one project on each platform, markets of one threshold, every price, open or
\* closed; the page script reads market.closed of a Limitless market
\* (dashboard.py:2105), a field api/limitless.py leaves unset
InitPrices ==
    \E pm \in SeqsOf(PricePool, 1, MaxMarkets), lm \in PricePool :
        /\ polyProjects = << PolyProject(1, NameZama,
                                 [i \in 1..Len(pm) |->
                                     [question |-> Q2BMay, closed |-> pm[i].closed,
                                      newPrice |-> pm[i].price]],
                                 0) >>
        /\ limitlessData = << LimProject(1, NameZama,
                                 << [title |-> Q2BMay, yes_price |-> lm.price,
                                     closed |-> lm.closed, volume |-> 0, depth |-> 0] >>) >>

\* one project on each platform with one open market each, the questions naming a
\* day with or without a year
InitDates ==
    \E pq \in DatedPool, lq \in DatedPool :
        /\ polyProjects = << PolyProject(1, NameZama,
                                 <<[question |-> pq, closed |-> FALSE, newPrice |-> Quarter(3)]>>,
                                 0) >>
        /\ limitlessData = << LimProject(1, NameZama,
                                 << [title |-> lq, yes_price |-> Quarter(1), closed |-> FALSE,
                                     volume |-> 0, depth |-> 0] >>) >>

\* one project on each platform with as many open markets of one threshold on
\* each, every Polymarket price up to MaxSpreadSteps steps of 1/PriceScale above or
\* below the Limitless price, the markets in ascending order of price
InitSpreads ==
    \E steps \in SeqsOf(-MaxSpreadSteps..MaxSpreadSteps, 1, MaxMarkets) :
        /\ \A i \in 1..(Len(steps) - 1) : steps[i] <= steps[i + 1]
        /\ polyProjects = << PolyProject(1, NameZama,
                                 [i \in 1..Len(steps) |->
                                     [question |-> Q2BMay, closed |-> FALSE,
                                      newPrice |-> Quarter(2) + steps[i]]],
                                 0) >>
        /\ limitlessData = << LimProject(1, NameZama,
                                 [i \in 1..Len(steps) |->
                                     [title |-> Q2BMay, yes_price |-> Quarter(2),
                                      closed |-> FALSE, volume |-> 0, depth |-> 0]]) >>

\* further Limitless markets of another threshold, each open or closed
OtherLimMarkets ==
    {[i \in 1..Len(cs) |->
         [title |-> Q500M, yes_price |-> Quarter(1), closed |-> cs[i], volume |-> 0, depth |-> 0]] :
       cs \in SeqsOf(BOOLEAN, 0, MaxMarkets)}

\* one project on each platform, one market of one threshold on each, the Limitless
\* market of every volume and depth, with or without further Limitless markets
InitLiquidity ==
    \E volume \in 0..MaxVolume, depth \in 0..MaxDepth, rest \in OtherLimMarkets :
        /\ polyProjects = << PolyProject(1, NameZama,
                                 <<[question |-> Q2BMay, closed |-> FALSE,
                                    newPrice |-> Quarter(3)]>>,
                                 0) >>
        /\ limitlessData = << LimProject(1, NameZama,
                                 << [title |-> Q2BMay, yes_price |-> Quarter(1), closed |-> FALSE,
                                     volume |-> volume, depth |-> depth] >> \o rest) >>

\* the comparator, the Limitless client and the launched-project store take no part
\* in the dashboard
LegacyIdle ==
    /\ legacyRendered = FALSE
    /\ legacyProjects = <<>>

CompareIdle ==
    /\ current = <<>>
    /\ previous = <<>>
    /\ changes = <<>>
    /\ comparePc = "off"

FetchIdle ==
    /\ responses = <<>>
    /\ page = 1
    /\ all_markets = <<>>
    /\ fetchPc = "off"

StoreIdle ==
    /\ stored = <<>>
    /\ returned = Null

Init ==
    /\ pc = "input"
    /\ InitNames \/ InitQuestions \/ InitPrices \/ InitLiquidity \/ InitDates \/ InitSpreads
    /\ campaigns = NoCampaigns
    /\ projectsData = <<>>
    /\ gapRendered = FALSE
    /\ projects = <<>>
    /\ html = <<>>
    /\ totalMatched = 0
    /\ totalUnmatched = 0
    /\ arbRendered = FALSE
    /\ opportunities = <<>>
    /\ arbResult = Null
    /\ LegacyIdle
    /\ CompareIdle
    /\ FetchIdle
    /\ StoreIdle

----------------------------------------------------------------------------
(* compare_snapshots (src/src/polymarket/analysis/comparator.py:13-67)        *)
(*                                                                         *)
(* Snapshot prices are integers in units of 1/MaxSnapPrice.  The current   *)
(* snapshot is the sequence of its markets in dict order, market i having  *)
(* slug i; the previous snapshot is a dict from slugs to yes_price, the    *)
(* empty dict being the snapshot that is missing.  Percentages are exact   *)
(* fractions.                                                              *)

\* markets of a snapshot and the largest price
MaxSnapMarkets == 2
MaxSnapPrice == 3

FAbs(x) == <<Abs(x[1]), x[2]>>

\* prev_price is not None
IsKnown(market, slug, prev) == ~market.closed /\ slug \in DOMAIN prev

\* not closed, prev_price is not None and prev_price != current_price
IsChange(market, slug, prev) ==
    /\ ~market.closed
    /\ slug \in DOMAIN prev
    /\ prev[slug] # market.yes_price

\* (change / prev_price * 100) if prev_price > 0 else 0
ChangePct(change, prev_price) ==
    IF prev_price > 0 THEN Frac(change * 100, prev_price) ELSE Num(0)

ChangeRecord(slug, current_price, prev_price) ==
    [market_slug |-> slug, prev_price |-> prev_price, current_price |-> current_price,
     change |-> current_price - prev_price,
     change_pct |-> ChangePct(current_price - prev_price, prev_price)]

\* the loop over the markets of the current snapshot, from market i on
RECURSIVE ChangesFrom(_, _, _)
ChangesFrom(cur, prev, i) ==
    IF i > Len(cur) THEN <<>>
    ELSE (IF IsChange(cur[i], i, prev)
          THEN <<ChangeRecord(i, cur[i].yes_price, prev[i])>>
          ELSE <<>>) \o ChangesFrom(cur, prev, i + 1)

\* changes.sort(key=lambda x: abs(x["change_pct"]), reverse=True): a stable sort,
\* so records of equal key keep their order
PctPlace(list, i) ==
    1 + Cardinality({j \in 1..Len(list) :
                       \/ FGt(FAbs(list[j].change_pct), FAbs(list[i].change_pct))
                       \/ /\ FAbs(list[j].change_pct) = FAbs(list[i].change_pct)
                          /\ j < i})

SortChanges(list) ==
    [p \in 1..Len(list) |-> list[CHOOSE i \in 1..Len(list) : PctPlace(list, i) = p]]

compare_snapshots(cur, prev) ==
    IF DOMAIN prev = {} THEN <<>> ELSE SortChanges(ChangesFrom(cur, prev, 1))

DashboardIdle ==
    /\ pc = "off"
    /\ polyProjects = <<>>
    /\ limitlessData = <<>>
    /\ campaigns = NoCampaigns
    /\ projectsData = <<>>
    /\ gapRendered = FALSE
    /\ projects = <<>>
    /\ html = <<>>
    /\ totalMatched = 0
    /\ totalUnmatched = 0
    /\ arbRendered = FALSE
    /\ opportunities = <<>>
    /\ arbResult = Null

\* an open market at any price, a closed market resolved at the top price
SnapMarkets ==
    {[closed |-> FALSE, yes_price |-> p] : p \in 0..MaxSnapPrice}
        \cup {[closed |-> TRUE, yes_price |-> MaxSnapPrice]}

InitCompare ==
    /\ \E n \in 0..MaxSnapMarkets : current \in [1..n -> SnapMarkets]
    /\ \E known \in SUBSET (1..MaxSnapMarkets) : previous \in [known -> 0..MaxSnapPrice]
    /\ changes = <<>>
    /\ comparePc = "input"
    /\ DashboardIdle
    /\ LegacyIdle
    /\ FetchIdle
    /\ StoreIdle

CompareSnapshots ==
    /\ comparePc = "input"
    /\ comparePc' = "done"
    /\ changes' = compare_snapshots(current, previous)
    /\ UNCHANGED <<current, previous, dashVars, legacyVars, fetchVars, storeVars>>

NextCompare == CompareSnapshots

SpecCompare == InitCompare /\ [][NextCompare]_vars

----------------------------------------------------------------------------
(* Actions *)

\* generate_html_dashboard embeds projects_data and the Limitless projects in the page
GenerateDashboard ==
    /\ pc = "input"
    /\ pc' = "page"
    /\ projectsData' = AddLimitlessOnly(polyProjects, limitlessData)
    /\ UNCHANGED <<polyProjects, limitlessData, campaigns, gapRendered, projects, html,
                   totalMatched, totalUnmatched, arbRendered, opportunities, arbResult>>
    /\ UNCHANGED <<legacyVars, compareVars, fetchVars, storeVars>>

\* switchTab('gap'): renderGapAnalysis runs once; it stops at once when there is
\* no Limitless data (dashboard.py:1956-1959)
SwitchTabGap ==
    /\ pc = "page"
    /\ ~gapRendered
    /\ gapRendered' = TRUE
    /\ IF Len(limitlessData) = 0
       THEN UNCHANGED <<projects, html, totalMatched, totalUnmatched>>
       ELSE /\ projects' = GapProjects(projectsData, limitlessData, campaigns)
            /\ html' = GapCards(projects')
            /\ totalMatched' = CountMatched(projects')
            /\ totalUnmatched' = CountUnmatched(projects')
    /\ UNCHANGED <<pc, polyProjects, limitlessData, campaigns, projectsData, arbRendered,
                   opportunities, arbResult>>
    /\ UNCHANGED <<legacyVars, compareVars, fetchVars, storeVars>>

\* switchTab('arb'): renderArbCalculator runs once
SwitchTabArb ==
    /\ pc = "page"
    /\ ~arbRendered
    /\ arbRendered' = TRUE
    /\ opportunities' = Opportunities(projectsData, limitlessData)
    /\ UNCHANGED <<pc, polyProjects, limitlessData, campaigns, projectsData, gapRendered,
                   projects, html, totalMatched, totalUnmatched, arbResult>>
    /\ UNCHANGED <<legacyVars, compareVars, fetchVars, storeVars>>

\* the user types a budget into the input of a row of the arbitrage table
UpdateArbCalc ==
    /\ pc = "page"
    /\ arbRendered
    /\ \E row \in 1..Len(opportunities), budget \in 0..MaxBudget :
         arbResult' = [row |-> row, budget |-> budget,
                       out |-> updateArbCalc(opportunities[row], budget)]
    /\ UNCHANGED <<pc, polyProjects, limitlessData, campaigns, projectsData, gapRendered,
                   projects, html, totalMatched, totalUnmatched, arbRendered, opportunities>>
    /\ UNCHANGED <<legacyVars, compareVars, fetchVars, storeVars>>

Next ==
    \/ GenerateDashboard
    \/ SwitchTabGap
    \/ SwitchTabArb
    \/ UpdateArbCalc

Spec == Init /\ [][Next]_vars

----------------------------------------------------------------------------
(* The legacy gap analysis (src/daily_tracker.py:1301-1422) *)

\* legacy findMarketMatch (daily_tracker.py:1340-1351): the first Limitless market
\* with the threshold of the question, matched before or not; 0 for null
legacyFindMarketMatch(polyQuestion, limitlessMarkets) ==
    MatchByKey(limitlessMarkets, {}, ThresholdOfQuestion, thresholdKey(polyQuestion))

\* the record pushed to matchedMarkets (daily_tracker.py:1374-1380); pmId and
\* limSlug record which two markets it was built from
LegacyMatchedMarket(pm, match) ==
    [question  |-> pm.question,
     polyPrice |-> pm.polyPrice,
     limPrice  |-> match.yes_price,
     spread    |-> (pm.polyPrice - match.yes_price) * 100,
     absSpread |-> Abs((pm.polyPrice - match.yes_price) * 100),
     pmId      |-> pm.pmId,
     limSlug   |-> match.slug]

LegacyAfterMatch(acc, pm, limMarkets, match) ==
    IF match # 0
    THEN [acc EXCEPT !.matchedMarkets = Append(@, LegacyMatchedMarket(pm, limMarkets[match]))]
    ELSE [acc EXCEPT !.unmatchedMarkets = Append(@, pm)]

LegacyMatchFor(pm, limMarkets, hasLim) ==
    IF hasLim THEN legacyFindMarketMatch(pm.question, limMarkets) ELSE 0

\* polyMarkets.forEach (daily_tracker.py:1369-1391) from market k on
RECURSIVE LegacyMatchPolyMarkets(_, _, _, _, _)
LegacyMatchPolyMarkets(polyMarkets, limMarkets, hasLim, acc, k) ==
    IF k > Len(polyMarkets) THEN acc
    ELSE LegacyMatchPolyMarkets(polyMarkets, limMarkets, hasLim,
                                LegacyAfterMatch(acc, polyMarkets[k], limMarkets,
                                                 LegacyMatchFor(polyMarkets[k], limMarkets,
                                                                hasLim)),
                                k + 1)

\* the record pushed to projects (daily_tracker.py:1402-1414)
LegacyRecord(polyProject, limitlessProject, acc, camp) ==
    [name             |-> polyProject.name,
     hasLimitless     |-> limitlessProject.found,
     matchedMarkets   |-> SortMatched(acc.matchedMarkets),
     unmatchedMarkets |-> acc.unmatchedMarkets,
     maxSpread        |-> MaxSpread(acc.matchedMarkets),
     leaderboard      |-> toLowerCase(polyProject.name) \in camp.leaderboard]

LegacyProjectWith(polyProject, limitlessProject, camp) ==
    LegacyRecord(polyProject, limitlessProject,
                 LegacyMatchPolyMarkets(OpenPolyMarkets(polyProject), limitlessProject.markets,
                                        limitlessProject.found,
                                        [matchedMarkets |-> <<>>, unmatchedMarkets |-> <<>>], 1),
                 camp)

\* one iteration of projectsData.filter(p => p.hasOpenMarkets).forEach
\* (daily_tracker.py:1358-1415)
LegacyProject(polyProject, lim, camp) ==
    LegacyProjectWith(polyProject,
                      LimitlessProjectAt(lim, findLimitlessProject(polyProject.name, lim)),
                      camp)

\* projects.sort (daily_tracker.py:1418-1422): projects with matches first, then by
\* maxSpread descending
LegacySortKey(a) == <<IF Len(a.matchedMarkets) > 0 THEN 0 ELSE 1, -a.maxSpread>>

MapLegacyProjects(open, lim, camp) ==
    [i \in 1..Len(open) |-> LegacyProject(open[i], lim, camp)]

SortLegacyProjects(ps) == StableSort(ps, [i \in 1..Len(ps) |-> LegacySortKey(ps[i])])

LegacyProjects(pd, lim, camp) ==
    SortLegacyProjects(MapLegacyProjects(WithOpenMarkets(pd), lim, camp))

\* the legacy renderGapAnalysis on the data of the page; it stops at once when there
\* is no Limitless data (daily_tracker.py:1312-1315)
LegacyRenderGapAnalysis ==
    /\ pc = "page"
    /\ ~legacyRendered
    /\ legacyRendered' = TRUE
    /\ legacyProjects' = IF Len(limitlessData) = 0 THEN <<>>
                         ELSE LegacyProjects(projectsData, limitlessData, campaigns)
    /\ UNCHANGED <<dashVars, compareVars, fetchVars, storeVars>>

NextLegacy ==
    \/ GenerateDashboard
    \/ SwitchTabGap
    \/ LegacyRenderGapAnalysis

SpecLegacy == Init /\ [][NextLegacy]_vars

----------------------------------------------------------------------------
(* LimitlessClient.fetch_active_markets (src/src/polymarket/api/limitless.py:45-82) *)
(*                                                                         *)
(* The API answers each request when it is made: with a request error (the  *)
(* exception of requests.get or of raise_for_status) or with a JSON object  *)
(* whose "data" is a list of markets, empty or missing at the end of the    *)
(* listing.  responses records the answers so far.                         *)

\* if page > 20: break
SafetyLimit == 20

\* the markets of a page, and the pages whose number of markets varies (a later
\* page holds one market)
MaxPageMarkets == 2
MaxVariedPages == 2

RequestError == [error |-> TRUE, data |-> <<>>]

\* the answer to the request for page p with n markets
PageOf(p, n) == [error |-> FALSE, data |-> [i \in 1..n |-> [id |-> <<p, i>>]]]

PageSizes(p) == IF p <= MaxVariedPages THEN 1..MaxPageMarkets ELSE {1}

InitFetch ==
    /\ responses = <<>>
    /\ page = 1
    /\ all_markets = <<>>
    /\ fetchPc = "loop"
    /\ DashboardIdle
    /\ LegacyIdle
    /\ CompareIdle
    /\ StoreIdle

\* all_markets.extend(markets) with the newest page in front
ExtendInFront(all, markets) == markets \o all

\* all_markets.extend(markets)
Extend(all, markets) == all \o markets

\* requests.get or resp.raise_for_status() raises requests.RequestException: the
\* handler returns what was fetched so far
FetchRequestError ==
    /\ fetchPc = "loop"
    /\ responses' = Append(responses, RequestError)
    /\ fetchPc' = "returned"
    /\ UNCHANGED <<page, all_markets, dashVars, legacyVars, compareVars, storeVars>>

\* if not markets: break
FetchEmptyPage ==
    /\ fetchPc = "loop"
    /\ responses' = Append(responses, PageOf(page, 0))
    /\ fetchPc' = "returned"
    /\ UNCHANGED <<page, all_markets, dashVars, legacyVars, compareVars, storeVars>>

\* a page with markets: extend, next page, and break after page 20
FetchPage ==
    /\ fetchPc = "loop"
    /\ \E n \in PageSizes(page) :
         /\ responses' = Append(responses, PageOf(page, n))
         /\ all_markets' = Extend(all_markets, PageOf(page, n).data)
    /\ page' = page + 1
    /\ fetchPc' = IF page + 1 > SafetyLimit THEN "returned" ELSE "loop"
    /\ UNCHANGED <<dashVars, legacyVars, compareVars, storeVars>>

NextFetch ==
    \/ FetchRequestError
    \/ FetchEmptyPage
    \/ FetchPage

SpecFetch == InitFetch /\ [][NextFetch]_vars

\* the loop is sequential code and every request ends, with a response or with the
\* timeout of requests.get (a RequestException), so a step is always taken
SpecFetchFair == SpecFetch /\ WF_vars(NextFetch)

----------------------------------------------------------------------------
(* LaunchedProjectStore.record_volume (src/src/polymarket/data/launched.py:156-205) *)
(*                                                                         *)
(* stored is data["projects"] of the JSON file; ids and dates are strings.  *)
(* The file is taken to be readable and writable, so that load returns its  *)
(* projects and save writes them.                                          *)

\* dates a volume is recorded for, and the largest Limitless volume of a day (the
\* Polymarket volume of the day being twice as much)
MaxDates == 3
MaxDayVolume == 1

IdZama == <<"z", "a", "m", "a">>
IdSol == <<"s", "o", "l">>
IdTemplate == <<"_", "t", "e", "m", "p", "l", "a", "t", "e">>

\* s.startswith(prefix)
startswith(s, prefix) == Len(s) >= Len(prefix) /\ SubSeq(s, 1, Len(prefix)) = prefix

DigitChar(n) == <<"0", "1", "2", "3", "4", "5", "6", "7", "8", "9">>[n + 1]

\* the date (YYYY-MM-DD) of year y, month m and day d, each below 10000, 100, 100
DateString(y, m, d) ==
    << DigitChar(y \div 1000), DigitChar((y \div 100) % 10), DigitChar((y \div 10) % 10),
       DigitChar(y % 10), "-", DigitChar(m \div 10), DigitChar(m % 10), "-",
       DigitChar(d \div 10), DigitChar(d % 10) >>

Days == << <<2026, 1, 10>>, <<2026, 1, 9>>, <<2025, 12, 31>>, <<2026, 2, 1>>, <<2027, 1, 1>> >>

DatePool == {DateString(Days[k][1], Days[k][2], Days[k][3]) : k \in 1..MaxDates}

\* the code point of a character of a date
CodePoint(c) ==
    IF c = "-" THEN 45 ELSE 47 + CHOOSE n \in 1..10 : DigitChar(n - 1) = c

\* a < b for Python strings: by the first character that differs, a proper prefix
\* being smaller
RECURSIVE StrLess(_, _)
StrLess(a, b) ==
    IF b = <<>> THEN FALSE
    ELSE IF a = <<>> THEN TRUE
    ELSE IF Head(a) = Head(b) THEN StrLess(Tail(a), Tail(b))
    ELSE CodePoint(Head(a)) < CodePoint(Head(b))

\* the comparisons of the dates, evaluated once
DateLess == [a \in DatePool |-> [b \in DatePool |-> StrLess(a, b)]]

\* load: the projects of the file whose id does not start with "_"
load(file) == SelectSeq(file, LAMBDA p : ~startswith(p.id, <<"_">>))

VolumeEntry(date, limitless_volume, polymarket_volume) ==
    [date |-> date, limitless_volume |-> limitless_volume,
     polymarket_volume |-> polymarket_volume,
     total_volume |-> limitless_volume + polymarket_volume]

\* index of the first entry of the date, 0 when there is none
RECURSIVE EntryOfDate(_, _, _)
EntryOfDate(history, date, i) ==
    IF i > Len(history) THEN 0
    ELSE IF history[i].date = date THEN i
    ELSE EntryOfDate(history, date, i + 1)

DatePlace(history, i) ==
    1 + Cardinality({j \in 1..Len(history) :
                       \/ DateLess[history[j].date][history[i].date]
                       \/ history[j].date = history[i].date /\ j < i})

\* a history left as it was appended to
Unsorted(history) == history

\* project["volume_history"].sort(key=lambda x: x["date"])
SortHistory(history) ==
    [p \in 1..Len(history) |->
        history[CHOOSE i \in 1..Len(history) : DatePlace(history, i) = p]]

\* the history after the call: the entry of the date updated in place, or a new
\* entry appended and the history sorted
RecordedAt(history, at, entry) ==
    IF at # 0 THEN [history EXCEPT ![at] = entry]
    ELSE SortHistory(Append(history, entry))

Recorded(history, entry) == RecordedAt(history, EntryOfDate(history, entry.date, 1), entry)

\* index of the first project of the id, 0 when there is none
RECURSIVE ProjectOfId(_, _, _)
ProjectOfId(ps, project_id, i) ==
    IF i > Len(ps) THEN 0
    ELSE IF ps[i].id = project_id THEN i
    ELSE ProjectOfId(ps, project_id, i + 1)

\* the file after record_volume, data being what load returned and at the index of
\* the project: saved with the new history, or untouched when there is no project
SavedAt(file, data, at, entry) ==
    IF at = 0 THEN file
    ELSE [data EXCEPT ![at].volume_history = Recorded(@, entry)]

record_volume(file, project_id, entry) ==
    SavedAt(file, load(file), ProjectOfId(load(file), project_id, 1), entry)

\* the file holds the template and one launched project, just added
InitStore ==
    /\ stored = << [id |-> IdTemplate, volume_history |-> <<>>],
                   [id |-> IdZama, volume_history |-> <<>>] >>
    /\ returned = Null
    /\ DashboardIdle
    /\ LegacyIdle
    /\ CompareIdle
    /\ FetchIdle

RecordVolume ==
    /\ \E project_id \in {IdZama, IdSol, IdTemplate}, date \in DatePool,
          limitless_volume \in 0..MaxDayVolume, polymarket_volume \in 0..(2 * MaxDayVolume) :
         /\ polymarket_volume = 2 * limitless_volume
         /\ stored' = record_volume(stored, project_id,
                                    VolumeEntry(date, limitless_volume, polymarket_volume))
         /\ returned' = [project_id |-> project_id, date |-> date,
                         limitless_volume |-> limitless_volume,
                         polymarket_volume |-> polymarket_volume,
                         value |-> ProjectOfId(load(stored), project_id, 1) # 0]
    /\ UNCHANGED <<dashVars, legacyVars, compareVars, fetchVars>>

NextStore == RecordVolume

SpecStore == InitStore /\ [][NextStore]_vars

----------------------------------------------------------------------------
(* Properties of the gap analysis and of the arbitrage calculator *)

\* the Limitless market of a slug
LimMarketBySlug(slug) == limitlessData[slug[2]].markets[slug[3]]

\* the quotes one project record of the report refers to, one entry per reference
QuoteRefs(pr) ==
    Flatten([i \in 1..Len(pr.matchedMarkets) |->
                <<pr.matchedMarkets[i].pmId, pr.matchedMarkets[i].limSlug>>])
    \o [i \in 1..Len(pr.unmatchedMarkets) |-> pr.unmatchedMarkets[i].pmId]
    \o [i \in 1..Len(pr.limOnlyMarkets) |-> pr.limOnlyMarkets[i].limSlug]

AllQuoteRefs == Flatten([p \in 1..Len(projects) |-> QuoteRefs(projects[p])])

\* the non-closed quotes of the input, Polymarket's by token and Limitless's by slug
OpenQuotes ==
    UNION {{polyProjects[i].markets[k].yesTokenId :
               k \in {k \in 1..Len(polyProjects[i].markets) :
                         ~polyProjects[i].markets[k].closed}} : i \in 1..Len(polyProjects)}
    \cup
    UNION {{limitlessData[i].markets[k].slug :
               k \in {k \in 1..Len(limitlessData[i].markets) :
                         ~limitlessData[i].markets[k].closed}} : i \in 1..Len(limitlessData)}

\* renderGapAnalysis has produced its report
GapReported == gapRendered /\ Len(limitlessData) > 0

\* the match key of a question: its threshold, else its date, else none
MatchKey(q) ==
    IF thresholdKey(q) # Null THEN <<"Threshold", thresholdKey(q)>>
    ELSE IF dateKey(q) # Null THEN <<"DateBound", dateKey(q)>>
    ELSE Null

\* C1: within each project of the gap report no Limitless market (by slug) and no
\* Polymarket market appears in more than one matched pair: a Limitless market
\* matched to one Polymarket market is not returned for a later one
OneToOneMatching ==
    \A p \in 1..Len(projects) :
        \A i, j \in 1..Len(projects[p].matchedMarkets) :
            i # j => /\ projects[p].matchedMarkets[i].limSlug
                          # projects[p].matchedMarkets[j].limSlug
                     /\ projects[p].matchedMarkets[i].pmId # projects[p].matchedMarkets[j].pmId

\* a project whose Limitless market was matched to one Polymarket market and withheld
\* from another Polymarket market of the same threshold
ConsumedSlugWithheld ==
    \E p \in 1..Len(projects) :
        \E i \in 1..Len(projects[p].matchedMarkets), u \in 1..Len(projects[p].unmatchedMarkets) :
            /\ projects[p].source = "polymarket"
            /\ thresholdKey(projects[p].unmatchedMarkets[u].question) # Null
            /\ thresholdKey(projects[p].unmatchedMarkets[u].question)
                 = thresholdKey(LimMarketBySlug(projects[p].matchedMarkets[i].limSlug).title)

\* C2: every non-closed quote of either platform is referred to by exactly one record
\* of the gap report (matched, Polymarket-exclusive or Limitless-exclusive), and the
\* report refers to as many quotes as the input has non-closed ones
Completeness ==
    GapReported =>
        /\ \A x \in OpenQuotes :
              Cardinality({i \in 1..Len(AllQuoteRefs) : AllQuoteRefs[i] = x}) = 1
        /\ Len(AllQuoteRefs) = Cardinality(OpenQuotes)

\* C3: no Limitless project is aligned to two Polymarket projects
AlignmentOneToOne ==
    \A p, r \in 1..Len(projects) :
        /\ p # r
        /\ projects[p].source = "polymarket" /\ projects[r].source = "polymarket"
        /\ projects[p].hasLimitless /\ projects[r].hasLimitless
        => projects[p].limName # projects[r].limName

\* C4: "$500M" and "$0.5B" are one threshold: a Polymarket market and a Limitless
\* market of one aligned project that carry them are not both left unmatched
SameAmountMatched ==
    \A p \in 1..Len(projects) :
        \A u \in 1..Len(projects[p].unmatchedMarkets), l \in 1..Len(projects[p].limOnlyMarkets) :
            {projects[p].unmatchedMarkets[u].question, projects[p].limOnlyMarkets[l].question}
              # {Q500M, Q05B}

\* C5: a Polymarket market whose question holds a threshold is matched only to a
\* Limitless market of the same threshold, whatever dates the questions mention
ThresholdMatchesThresholdOnly ==
    \A p \in 1..Len(projects) :
        \A i \in 1..Len(projects[p].matchedMarkets) :
            thresholdKey(projects[p].matchedMarkets[i].question) # Null
            => thresholdKey(LimMarketBySlug(projects[p].matchedMarkets[i].limSlug).title)
                 = thresholdKey(projects[p].matchedMarkets[i].question)

\* C6: the two quotes of a matched pair have equal match keys of the same variant,
\* and no two unmatched quotes of one aligned project have equal match keys
MatchedIffSameKey ==
    \A p \in 1..Len(projects) :
        /\ \A i \in 1..Len(projects[p].matchedMarkets) :
              /\ MatchKey(projects[p].matchedMarkets[i].question) # Null
              /\ MatchKey(projects[p].matchedMarkets[i].question)
                   = MatchKey(LimMarketBySlug(projects[p].matchedMarkets[i].limSlug).title)
        /\ \A u \in 1..Len(projects[p].unmatchedMarkets),
              l \in 1..Len(projects[p].limOnlyMarkets) :
              MatchKey(projects[p].unmatchedMarkets[u].question) # Null
              => MatchKey(projects[p].unmatchedMarkets[u].question)
                   # MatchKey(projects[p].limOnlyMarkets[l].question)

\* the pairs renderArbCalculator prices: each open market of an aligned project with
\* the first Limitless market of its threshold
PricedPairs ==
    UNION {
      {[pmId |-> IF projectsData[i].markets[k].yesTokenId # Null
                 THEN projectsData[i].markets[k].yesTokenId
                 ELSE projectsData[i].markets[k].limSlug,
        limSlug |-> limitlessData[findLimitlessProject(projectsData[i].name, limitlessData)]
                       .markets[MatchByKey(
                           limitlessData[findLimitlessProject(projectsData[i].name,
                                                              limitlessData)].markets,
                           {}, ThresholdOfQuestion,
                           thresholdKey(projectsData[i].markets[k].question))].slug,
        polyYes |-> projectsData[i].markets[k].newPrice] :
         k \in {k \in 1..Len(projectsData[i].markets) :
                  /\ ~projectsData[i].markets[k].closed
                  /\ MatchByKey(
                         limitlessData[findLimitlessProject(projectsData[i].name,
                                                            limitlessData)].markets,
                         {}, ThresholdOfQuestion,
                         thresholdKey(projectsData[i].markets[k].question)) # 0}} :
      i \in {i \in 1..Len(projectsData) :
               /\ projectsData[i].hasOpenMarkets
               /\ findLimitlessProject(projectsData[i].name, limitlessData) # 0}}

\* combined_cost = lim.yes_price + (1 - poly.yes_price), in units of 1/PriceScale
CombinedCost(pair) == LimMarketBySlug(pair.limSlug).yes_price + (PriceScale - pair.polyYes)

Listed(pair) ==
    \E o \in 1..Len(opportunities) :
        opportunities[o].pmId = pair.pmId /\ opportunities[o].limSlug = pair.limSlug

\* C7: a priced pair is listed as an opportunity exactly when its combined cost is
\* below 1; for every positive budget the split of its prices has a profit above 0
\* exactly when the combined cost is below 1; and the calculator shows the split of
\* every listed row for every positive budget
NoArbBoundary ==
    arbRendered =>
        /\ \A pair \in PricedPairs :
              /\ Listed(pair) <=> CombinedCost(pair) < PriceScale
              /\ \A budget \in 1..MaxBudget :
                    FGt(calculateSplit(budget, LimMarketBySlug(pair.limSlug).yes_price,
                                       PriceScale - pair.polyYes).profit, Num(0))
                    <=> CombinedCost(pair) < PriceScale
        /\ \A o \in 1..Len(opportunities) :
              opportunities[o].combinedCost < PriceScale
        /\ (arbResult # Null /\ arbResult.budget > 0)
              => /\ arbResult.out.shown = "split"
                 /\ FGt(arbResult.out.result.profit, Num(0))

\* the calculator has listed a pair, shown its split for a positive budget, and left
\* out another pair whose combined cost is exactly 1
BoundaryPairLeftOut ==
    /\ arbRendered
    /\ arbResult # Null
    /\ arbResult.budget > 0
    /\ arbResult.out.shown = "split"
    /\ \E pair \in PricedPairs : CombinedCost(pair) = PriceScale /\ ~Listed(pair)

\* C8: every opportunity of the arb calculator pairs the two markets of a matched
\* pair of the gap analysis, and no Limitless market is in two opportunities
ArbFromMatchedPairs ==
    (gapRendered /\ arbRendered) =>
        /\ \A o \in 1..Len(opportunities) :
              \E p \in 1..Len(projects) :
                  \E i \in 1..Len(projects[p].matchedMarkets) :
                      /\ projects[p].matchedMarkets[i].pmId = opportunities[o].pmId
                      /\ projects[p].matchedMarkets[i].limSlug = opportunities[o].limSlug
        /\ \A o, q \in 1..Len(opportunities) :
              o # q => opportunities[o].limSlug # opportunities[q].limSlug

\* a Polymarket project of the report was aligned to the Limitless project l
Consumed(l) ==
    \E p \in 1..Len(projects) :
        /\ projects[p].source = "polymarket"
        /\ projects[p].hasLimitless
        /\ projects[p].limName = l.name

\* C9: of a Limitless project that no Polymarket project was aligned to, no market
\* is in a matched pair and every non-closed market is reported Limitless-exclusive
UnconsumedIsLimitlessOnly ==
    GapReported =>
        \A l \in 1..Len(limitlessData) :
            ~Consumed(limitlessData[l]) =>
                \A k \in 1..Len(limitlessData[l].markets) :
                    /\ \A p \in 1..Len(projects) :
                          \A i \in 1..Len(projects[p].matchedMarkets) :
                              projects[p].matchedMarkets[i].limSlug
                                # limitlessData[l].markets[k].slug
                    /\ ~limitlessData[l].markets[k].closed
                       => \E p \in 1..Len(projects) :
                             \E i \in 1..Len(projects[p].limOnlyMarkets) :
                                 projects[p].limOnlyMarkets[i].limSlug
                                   = limitlessData[l].markets[k].slug

\* lower-cased, with every character that is no letter a-z and no digit removed
AlnumLowerOf(s) == SelectSeq(toLowerCase(s), LAMBDA c : c \in LowerLetters \cup Digits)

\* the same of each project name, evaluated once
AlnumLowerNames == [n \in NamePool |-> AlnumLowerOf(n)]

AlnumLower(s) == AlnumLowerNames[s]

\* the Limitless projects whose normalized name equals that of name, contains it,
\* or is contained in it
AligningWith(name) ==
    {i \in 1..Len(limitlessData) :
        \/ AlnumLower(limitlessData[i].name) = AlnumLower(name)
        \/ includes(AlnumLower(limitlessData[i].name), AlnumLower(name))
        \/ includes(AlnumLower(name), AlnumLower(limitlessData[i].name))}

\* C10: a project of the report is aligned with the first Limitless project, in
\* iteration order, whose normalized name equals its normalized name, contains it or
\* is contained in it; when there is none the project has no Limitless counterpart
AlignmentRule ==
    \A p \in 1..Len(projects) :
        IF AligningWith(projects[p].name) = {}
        THEN ~projects[p].hasLimitless /\ projects[p].limName = Null
        ELSE /\ projects[p].hasLimitless
             /\ projects[p].limName
                  = limitlessData[Min(AligningWith(projects[p].name))].name

\* the report holds a project with no Limitless counterpart and a project that two
\* Limitless projects align with, the first of them by containment only
FirstOfSeveralAligned ==
    /\ \E p \in 1..Len(projects) : ~projects[p].hasLimitless
    /\ \E p \in 1..Len(projects) :
          /\ Cardinality(AligningWith(projects[p].name)) >= 2
          /\ AlnumLower(projects[p].limName) # AlnumLower(projects[p].name)

\* the Limitless project of a name
LimProjectNamed(name) ==
    limitlessData[CHOOSE i \in 1..Len(limitlessData) : limitlessData[i].name = name]

\* the slugs of the non-closed markets of a Limitless project
OpenSlugs(l) == {l.markets[k].slug : k \in {k \in 1..Len(l.markets) : ~l.markets[k].closed}}

MatchedSlugs(pr) == {pr.matchedMarkets[i].limSlug : i \in 1..Len(pr.matchedMarkets)}

LimOnlySlugs(pr) == {pr.limOnlyMarkets[i].limSlug : i \in 1..Len(pr.limOnlyMarkets)}

\* C11: the Limitless-exclusive records of an aligned project are, each once, the
\* non-closed markets of the aligned Limitless project that are in no matched pair;
\* a project with no Limitless counterpart has none
LimOnlyIsOpenMinusMatched ==
    \A p \in 1..Len(projects) :
        IF projects[p].hasLimitless
        THEN /\ LimOnlySlugs(projects[p])
                  = OpenSlugs(LimProjectNamed(projects[p].limName)) \ MatchedSlugs(projects[p])
             /\ Cardinality(LimOnlySlugs(projects[p])) = Len(projects[p].limOnlyMarkets)
        ELSE projects[p].limOnlyMarkets = <<>>

\* a Polymarket project with a matched pair and a Limitless-exclusive market, whose
\* Limitless project has a closed market, in no matched pair, that is left out
MatchedAndLimOnly ==
    \E p \in 1..Len(projects) :
          /\ projects[p].source = "polymarket"
          /\ projects[p].hasLimitless
          /\ Len(projects[p].matchedMarkets) > 0
          /\ Len(projects[p].limOnlyMarkets) > 0
          /\ \E k \in 1..Len(LimProjectNamed(projects[p].limName).markets) :
                /\ LimProjectNamed(projects[p].limName).markets[k].closed
                /\ LimProjectNamed(projects[p].limName).markets[k].slug
                     \notin MatchedSlugs(projects[p])

\* the entry of projectsData a project record was built from
ProjectEntry(pr) ==
    projectsData[CHOOSE i \in 1..Len(projectsData) : projectsData[i].name = pr.name]

\* the non-closed markets of an entry of projectsData whose question has no match key
OpenKeylessQuestions(entry) ==
    {k \in 1..Len(entry.markets) :
        ~entry.markets[k].closed /\ MatchKey(entry.markets[k].question) = Null}

\* the non-closed markets of a Limitless project whose title has no match key
OpenKeylessTitles(l) ==
    {k \in 1..Len(l.markets) : ~l.markets[k].closed /\ MatchKey(l.markets[k].title) = Null}

\* C12: a quote whose text yields neither a threshold nor a date is on neither side
\* of a matched pair, and the record of its project reports it platform-exclusive:
\* a Polymarket quote among the unmatched markets, a Limitless quote among the
\* Limitless-only markets
KeylessIsExclusive ==
    \A p \in 1..Len(projects) :
        /\ \A i \in 1..Len(projects[p].matchedMarkets) :
              /\ MatchKey(projects[p].matchedMarkets[i].question) # Null
              /\ MatchKey(LimMarketBySlug(projects[p].matchedMarkets[i].limSlug).title) # Null
        /\ \A k \in OpenKeylessQuestions(ProjectEntry(projects[p])) :
              \E u \in 1..Len(projects[p].unmatchedMarkets) :
                  projects[p].unmatchedMarkets[u].question
                    = ProjectEntry(projects[p]).markets[k].question
        /\ projects[p].hasLimitless =>
              \A k \in OpenKeylessTitles(LimProjectNamed(projects[p].limName)) :
                  LimProjectNamed(projects[p].limName).markets[k].slug
                    \in LimOnlySlugs(projects[p])

\* a Polymarket project with a quote without match key on each platform, of the
\* same text, both reported platform-exclusive
KeylessOnBothSides ==
    \E p \in 1..Len(projects) :
        /\ projects[p].source = "polymarket"
        /\ \E u \in 1..Len(projects[p].unmatchedMarkets) :
              MatchKey(projects[p].unmatchedMarkets[u].question) = Null
        /\ \E l \in 1..Len(projects[p].limOnlyMarkets) :
              MatchKey(projects[p].limOnlyMarkets[l].question) = Null

\* C13: a project of the report is flagged exactly when it has at least one
\* Polymarket-exclusive market and no matched market, aligned or not
GapCandidateFlag ==
    \A p \in 1..Len(projects) :
        NotOnLimitless(projects[p])
        <=> (Len(projects[p].unmatchedMarkets) > 0 /\ Len(projects[p].matchedMarkets) = 0)

\* the tokens of the non-closed markets of a Polymarket project, in order
OpenTokens(pp) ==
    [k \in 1..Len(OpenMarkets(pp.markets)) |-> OpenMarkets(pp.markets)[k].yesTokenId]

GapCandidate(pr) == Len(pr.unmatchedMarkets) > 0 /\ Len(pr.matchedMarkets) = 0

\* C15: in the report every gap candidate comes before every project that is none,
\* and among the candidates, and among the others, a project never comes before one
\* of a larger maximum absolute spread
GapCandidatesFirst ==
    \A p, r \in 1..Len(projects) :
        p < r =>
            /\ ~(~GapCandidate(projects[p]) /\ GapCandidate(projects[r]))
            /\ GapCandidate(projects[p]) = GapCandidate(projects[r])
                  => projects[p].maxSpread >= projects[r].maxSpread

\* C16: "by May 1" and "by May 1, 2026" are one date when the year is 2026: a
\* Polymarket market and a Limitless market of one aligned project that carry them
\* are not both left unmatched
YearDefaulted ==
    \A p \in 1..Len(projects) :
        \A u \in 1..Len(projects[p].unmatchedMarkets), l \in 1..Len(projects[p].limOnlyMarkets) :
            {projects[p].unmatchedMarkets[u].question, projects[p].limOnlyMarkets[l].question}
              # {QMay, QMay2026}

\* the market of an entry of projectsData a matched pair refers to
PolyMarketById(entry, pmId) ==
    entry.markets[CHOOSE k \in 1..Len(entry.markets) :
                      PolyMarketOf(entry.markets[k]).pmId = pmId]

\* the matched record of the same two markets with their prices exchanged
Swapped(m) ==
    MatchedMarket([question |-> m.question, polyPrice |-> m.limPrice,
                   yesTokenId |-> m.polyYesTokenId, pmId |-> m.pmId],
                  [LimMarketBySlug(m.limSlug) EXCEPT !.yes_price = m.polyPrice])

\* C17: the spread of a matched pair is the Polymarket price minus the Limitless
\* price, times 100, and its absolute spread the absolute value of that; with the
\* two prices exchanged the spread is the negative and the absolute spread the same
SpreadAntisymmetric ==
    \A p \in 1..Len(projects) :
        \A i \in 1..Len(projects[p].matchedMarkets) :
            /\ projects[p].matchedMarkets[i].spread
                 = (PolyMarketById(ProjectEntry(projects[p]),
                                   projects[p].matchedMarkets[i].pmId).newPrice
                      - LimMarketBySlug(projects[p].matchedMarkets[i].limSlug).yes_price) * 100
            /\ projects[p].matchedMarkets[i].absSpread
                 = Abs(projects[p].matchedMarkets[i].spread)
            /\ Swapped(projects[p].matchedMarkets[i]).spread
                 = -projects[p].matchedMarkets[i].spread
            /\ Swapped(projects[p].matchedMarkets[i]).absSpread
                 = projects[p].matchedMarkets[i].absSpread

\* a matched pair whose Polymarket price is below its Limitless price
NegativeSpreadPair ==
    \E p \in 1..Len(projects) :
        \E i \in 1..Len(projects[p].matchedMarkets) :
            /\ projects[p].matchedMarkets[i].spread < 0
            /\ projects[p].matchedMarkets[i].absSpread > 0

\* the split big is the split base with every amount multiplied by factor and the
\* same profit percentage
ScalesBy(factor, big, base) ==
    /\ big.shares = FMul(Num(factor), base.shares)
    /\ big.limAmount = FMul(Num(factor), base.limAmount)
    /\ big.polyAmount = FMul(Num(factor), base.polyAmount)
    /\ big.payout = FMul(Num(factor), base.payout)
    /\ big.profit = FMul(Num(factor), base.profit)
    /\ big.profitPct = base.profitPct
    /\ big.combinedCost = base.combinedCost

\* C18: with the prices fixed and a combined cost above 0, the split of a budget
\* multiplied by a positive factor has shares, both spends, payout and profit
\* multiplied by that factor, and the same profit percentage: for the split the
\* calculator has shown for a row, and for the Polymarket price of that row with
\* every Limitless price (a combined cost below, at or above 1)
BudgetScaling ==
    (arbResult # Null /\ arbResult.budget > 0) =>
        \A factor \in 1..MaxFactor :
            /\ opportunities[arbResult.row].combinedCost > 0 =>
                  ScalesBy(factor,
                           calculateSplit(factor * arbResult.budget,
                                          opportunities[arbResult.row].limYes,
                                          opportunities[arbResult.row].polyNo),
                           arbResult.out.result)
            /\ \A limYesPrice \in {Quarter(k) : k \in 0..4} :
                  limYesPrice + opportunities[arbResult.row].polyNo > 0 =>
                      ScalesBy(factor,
                               calculateSplit(factor * arbResult.budget, limYesPrice,
                                              opportunities[arbResult.row].polyNo),
                               calculateSplit(arbResult.budget, limYesPrice,
                                              opportunities[arbResult.row].polyNo))

\* the calculator shows, for a budget above one dollar, the split of a row whose
\* combined cost is above 0
SplitOfLargerBudget ==
    /\ arbResult # Null
    /\ arbResult.budget > 1
    /\ arbResult.out.shown = "split"
    /\ opportunities[arbResult.row].combinedCost > 0

\* an absolute spread of the model is above pp percentage points
AbovePoints(absSpread, pp) == absSpread > pp * PriceScale

\* C19: every matched pair of the report has its row, in the same order, and the
\* row is coloured high (red) exactly when the absolute spread is above 10, medium
\* (yellow) exactly when it is above 5 and at most 10, and low otherwise
SeverityClasses ==
    GapReported =>
        /\ Len(html) = Len(projects)
        /\ \A p \in 1..Len(projects) :
              /\ Len(html[p].matchedRows) = Len(projects[p].matchedMarkets)
              /\ \A i \in 1..Len(projects[p].matchedMarkets) :
                    /\ html[p].matchedRows[i].limSlug = projects[p].matchedMarkets[i].limSlug
                    /\ html[p].matchedRows[i].polyToken
                         = projects[p].matchedMarkets[i].polyYesTokenId
                    /\ html[p].matchedRows[i].spreadColor
                         \in {"red", "yellow", "text-secondary"}
                    /\ html[p].matchedRows[i].spreadColor = "red"
                         <=> AbovePoints(projects[p].matchedMarkets[i].absSpread, 10)
                    /\ html[p].matchedRows[i].spreadColor = "yellow"
                         <=> /\ AbovePoints(projects[p].matchedMarkets[i].absSpread, 5)
                             /\ ~AbovePoints(projects[p].matchedMarkets[i].absSpread, 10)
                    /\ html[p].matchedRows[i].spreadColor = "text-secondary"
                         <=> ~AbovePoints(projects[p].matchedMarkets[i].absSpread, 5)

\* a card with a row of a spread of exactly 10 points, coloured medium, and a row
\* of a spread of exactly 5 points, coloured low
BoundaryRows ==
    \E p \in 1..Len(html) :
        \E i, j \in 1..Len(html[p].matchedRows) :
            /\ projects[p].matchedMarkets[i].absSpread = 10 * PriceScale
            /\ html[p].matchedRows[i].spreadColor = "yellow"
            /\ projects[p].matchedMarkets[j].absSpread = 5 * PriceScale
            /\ html[p].matchedRows[j].spreadColor = "text-secondary"

\* ratio is volume / depth when depth > 0, +infinity when depth is 0 and volume
\* above 0, and 0 when both are 0
IsThinnessRatio(ratio, volume, depth) ==
    IF depth > 0 THEN ratio[2] > 0 /\ ratio[1] * depth = volume * ratio[2]
    ELSE IF volume > 0 THEN ratio = Infinity
    ELSE ratio = Num(0)

\* C20: the ratio of a matched pair is the thinness ratio of its Limitless market;
\* the pair is thin exactly when the ratio is above 10, that is when the volume is
\* above 10 times the depth, its row is coloured healthy (green) exactly when the
\* ratio is below 2, and no pair is both
ThinnessRatio ==
    GapReported =>
        \A p \in 1..Len(projects) :
            \A i \in 1..Len(projects[p].matchedMarkets) :
                /\ IsThinnessRatio(projects[p].matchedMarkets[i].ratio,
                                   LimMarketBySlug(projects[p].matchedMarkets[i].limSlug).volume,
                                   LimMarketBySlug(projects[p].matchedMarkets[i].limSlug).depth)
                /\ html[p].matchedRows[i].ratio = projects[p].matchedMarkets[i].ratio
                /\ projects[p].matchedMarkets[i].isThin
                     <=> LimMarketBySlug(projects[p].matchedMarkets[i].limSlug).volume
                           > 10 * LimMarketBySlug(projects[p].matchedMarkets[i].limSlug).depth
                /\ html[p].matchedRows[i].ratioColor = "green"
                     <=> \/ LimMarketBySlug(projects[p].matchedMarkets[i].limSlug).volume
                              < 2 * LimMarketBySlug(projects[p].matchedMarkets[i].limSlug).depth
                         \/ /\ LimMarketBySlug(projects[p].matchedMarkets[i].limSlug).volume = 0
                            /\ LimMarketBySlug(projects[p].matchedMarkets[i].limSlug).depth = 0
                /\ html[p].matchedRows[i].ratioColor = "red"
                     <=> projects[p].matchedMarkets[i].isThin
                /\ ~(/\ projects[p].matchedMarkets[i].isThin
                      /\ html[p].matchedRows[i].ratioColor = "green")

\* a matched pair whose Limitless market has volume and no depth: its ratio is
\* +infinity and it is thin
ThinWithoutDepth ==
    \E p \in 1..Len(projects) :
        \E i \in 1..Len(projects[p].matchedMarkets) :
            /\ LimMarketBySlug(projects[p].matchedMarkets[i].limSlug).depth = 0
            /\ LimMarketBySlug(projects[p].matchedMarkets[i].limSlug).volume > 0
            /\ projects[p].matchedMarkets[i].ratio = Infinity
            /\ projects[p].matchedMarkets[i].isThin
            /\ html[p].matchedRows[i].ratioColor = "red"

\* the markets of a project record that are matched, and that are unmatched
MatchedIds(pr) == {pr.matchedMarkets[i].pmId : i \in 1..Len(pr.matchedMarkets)}
UnmatchedIds(pr) == {pr.unmatchedMarkets[u].pmId : u \in 1..Len(pr.unmatchedMarkets)}

\* the non-closed markets of an entry of projectsData
OpenIds(entry) ==
    {PolyMarketOf(entry.markets[k]).pmId :
        k \in {k \in 1..Len(entry.markets) : ~entry.markets[k].closed}}

\* C22: for every project of the report, each non-closed market of its entry is in
\* exactly one of matchedMarkets and unmatchedMarkets, the two sizes add up to the
\* number of its non-closed markets, totalMatched + totalUnmatched is that number
\* summed over the projects, and no Limitless slug is both in a matched pair and in
\* limOnlyMarkets
OpenMarketsPartitioned ==
    GapReported =>
        /\ \A p \in 1..Len(projects) :
              /\ MatchedIds(projects[p]) \cap UnmatchedIds(projects[p]) = {}
              /\ MatchedIds(projects[p]) \cup UnmatchedIds(projects[p])
                   = OpenIds(ProjectEntry(projects[p]))
              /\ Cardinality(MatchedIds(projects[p])) = Len(projects[p].matchedMarkets)
              /\ Cardinality(UnmatchedIds(projects[p])) = Len(projects[p].unmatchedMarkets)
              /\ Len(projects[p].matchedMarkets) + Len(projects[p].unmatchedMarkets)
                   = Len(OpenMarkets(ProjectEntry(projects[p]).markets))
              /\ MatchedSlugs(projects[p]) \cap LimOnlySlugs(projects[p]) = {}
        /\ totalMatched = CountMatched(projects)
        /\ totalMatched + totalUnmatched
             = SumSeq([p \in 1..Len(projects) |->
                          Len(OpenMarkets(ProjectEntry(projects[p]).markets))])

\* a Polymarket project of the report with a matched market and an unmatched
\* market, both counted in the totals
MatchedBesideUnmatched ==
    /\ GapReported
    /\ totalMatched > 0
    /\ totalUnmatched > 0
    /\ \E p \in 1..Len(projects) :
          /\ projects[p].source = "polymarket"
          /\ Len(projects[p].matchedMarkets) > 0
          /\ Len(projects[p].unmatchedMarkets) > 0

\* C23: the Polymarket side of every matched pair is a market fetched from
\* Polymarket: a matched pair belongs to an entry of source "polymarket" and its
\* Polymarket side is not a Limitless market, and every arbitrage opportunity belongs
\* to a project fetched from Polymarket
PolySideFromPolymarket ==
    /\ \A p \in 1..Len(projects) :
          \A i \in 1..Len(projects[p].matchedMarkets) :
              /\ ProjectEntry(projects[p]).source = "polymarket"
              /\ projects[p].matchedMarkets[i].pmId # projects[p].matchedMarkets[i].limSlug
    /\ \A o \in 1..Len(opportunities) :
          \E i \in 1..Len(polyProjects) : polyProjects[i].name = opportunities[o].project

\* C24: a project whose name normalizes to the empty string is aligned with no
\* project of the other platform: a project of the report with such a name has no
\* Limitless counterpart, and no project of the report is aligned with a Limitless
\* project of such a name
EmptyNameNotAligned ==
    \A p \in 1..Len(projects) :
        /\ AlnumLower(projects[p].name) = <<>> => ~projects[p].hasLimitless
        /\ projects[p].hasLimitless => AlnumLower(projects[p].limName) # <<>>

\* the split r of a budget at the prices limYes and polyNo (in units of
\* 1/PriceScale): the two spends add up to the budget and are not negative, the
\* shares are budget / combined cost, the payout is the shares and the profit is
\* the payout minus the budget
SplitIdentities(r, budget, limYes, polyNo) ==
    /\ r.shares = Frac(budget * PriceScale, limYes + polyNo)
    /\ r.limAmount = Frac(budget * limYes, limYes + polyNo)
    /\ r.polyAmount = Frac(budget * polyNo, limYes + polyNo)
    /\ FSub(Num(budget), r.limAmount) = r.polyAmount
    /\ r.limAmount[1] >= 0 /\ r.limAmount[2] > 0
    /\ r.polyAmount[1] >= 0 /\ r.polyAmount[2] > 0
    /\ r.payout = r.shares
    /\ r.profit = FSub(r.payout, Num(budget))

\* C25: for a positive budget and prices with a combined cost above 0, lim_spend +
\* poly_spend = budget, payout = shares = budget / combined_cost, profit = payout -
\* budget and both spends are non-negative: for the split the calculator has
\* computed for a row, and for the Polymarket price of that row with every
\* Limitless price
SplitConservesBudget ==
    (arbResult # Null /\ arbResult.budget > 0) =>
        /\ opportunities[arbResult.row].combinedCost > 0 =>
              SplitIdentities(arbResult.out.result, arbResult.budget,
                              opportunities[arbResult.row].limYes,
                              opportunities[arbResult.row].polyNo)
        /\ \A limYesPrice \in {Quarter(k) : k \in 0..4} :
              limYesPrice + opportunities[arbResult.row].polyNo > 0 =>
                  SplitIdentities(calculateSplit(arbResult.budget, limYesPrice,
                                                 opportunities[arbResult.row].polyNo),
                                  arbResult.budget, limYesPrice,
                                  opportunities[arbResult.row].polyNo)

\* the calculator shows a split that spends money on both platforms
SplitOnBothPlatforms ==
    /\ arbResult # Null
    /\ arbResult.out.shown = "split"
    /\ opportunities[arbResult.row].combinedCost > 0
    /\ FGt(arbResult.out.result.limAmount, Num(0))
    /\ FGt(arbResult.out.result.polyAmount, Num(0))

\* C26: every listed opportunity has a combined cost above 0, so that no split is
\* computed with a divisor of 0, and a split is computed exactly when the budget is
\* above 0, the calculator asking for a budget otherwise
SplitDivisorPositive ==
    /\ \A o \in 1..Len(opportunities) : opportunities[o].combinedCost > 0
    /\ arbResult # Null =>
          /\ arbResult.budget > 0 =>
                /\ arbResult.out.result # Null
                /\ arbResult.out.result.shares[2] > 0
          /\ arbResult.budget <= 0 =>
                /\ arbResult.out.shown = "enter-budget"
                /\ arbResult.out.result = Null

\* the market of the entry of a project record with the given id is closed
ClosedOnPolymarket(pr, pmId) ==
    \E k \in 1..Len(ProjectEntry(pr).markets) :
        /\ PolyMarketOf(ProjectEntry(pr).markets[k]).pmId = pmId
        /\ ProjectEntry(pr).markets[k].closed

\* C27: no closed market is in the report or in the arbitrage table: neither side
\* of a matched pair is closed, no Limitless-exclusive and no Polymarket-exclusive
\* record is of a closed market, and no opportunity is on a closed Limitless market
ClosedNeverReported ==
    /\ \A p \in 1..Len(projects) :
          /\ \A i \in 1..Len(projects[p].matchedMarkets) :
                /\ ~LimMarketBySlug(projects[p].matchedMarkets[i].limSlug).closed
                /\ ~ClosedOnPolymarket(projects[p], projects[p].matchedMarkets[i].pmId)
          /\ \A l \in 1..Len(projects[p].limOnlyMarkets) :
                ~LimMarketBySlug(projects[p].limOnlyMarkets[l].limSlug).closed
          /\ \A u \in 1..Len(projects[p].unmatchedMarkets) :
                ~ClosedOnPolymarket(projects[p], projects[p].unmatchedMarkets[u].pmId)
    /\ \A o \in 1..Len(opportunities) :
          ~LimMarketBySlug(opportunities[o].limSlug).closed

\* the pairs of markets a project record reports matched
MatchedPairsOf(pr) ==
    {<<pr.matchedMarkets[i].pmId, pr.matchedMarkets[i].limSlug>> :
        i \in 1..Len(pr.matchedMarkets)}

\* every question of the page and every Limitless title carries a threshold and no
\* date
ThresholdKeyed ==
    /\ \A i \in 1..Len(projectsData) :
          \A k \in 1..Len(projectsData[i].markets) :
              /\ thresholdKey(projectsData[i].markets[k].question) # Null
              /\ dateKey(projectsData[i].markets[k].question) = Null
    /\ \A l \in 1..Len(limitlessData) :
          \A k \in 1..Len(limitlessData[l].markets) :
              /\ thresholdKey(limitlessData[l].markets[k].title) # Null
              /\ dateKey(limitlessData[l].markets[k].title) = Null

\* C28: on input whose questions carry thresholds and no dates, the legacy gap
\* analysis and the current one report the same projects, each with the same matched
\* pairs and the same Polymarket-exclusive markets
LegacyAgrees ==
    (gapRendered /\ legacyRendered /\ ThresholdKeyed) =>
        /\ {projects[p].name : p \in 1..Len(projects)}
             = {legacyProjects[q].name : q \in 1..Len(legacyProjects)}
        /\ \A p \in 1..Len(projects), q \in 1..Len(legacyProjects) :
              projects[p].name = legacyProjects[q].name =>
                  /\ MatchedPairsOf(projects[p]) = MatchedPairsOf(legacyProjects[q])
                  /\ UnmatchedIds(projects[p]) = UnmatchedIds(legacyProjects[q])

----------------------------------------------------------------------------
(* Properties of compare_snapshots *)

\* the markets of the current snapshot that are open and had another price before
Eligible ==
    {i \in 1..Len(current) :
        ~current[i].closed /\ i \in DOMAIN previous /\ previous[i] # current[i].yes_price}

RecordsOf(i) == {k \in 1..Len(changes) : changes[k].market_slug = i}

OneRecordEach ==
    /\ \A i \in 1..Len(current) :
         Cardinality(RecordsOf(i)) = IF i \in Eligible THEN 1 ELSE 0
    /\ \A k \in 1..Len(changes) :
         /\ changes[k].market_slug \in Eligible
         /\ changes[k].prev_price = previous[changes[k].market_slug]
         /\ changes[k].current_price = current[changes[k].market_slug].yes_price
         /\ changes[k].change = changes[k].current_price - changes[k].prev_price

\* |a.change| / a.prev_price >= |b.change| / b.prev_price, a previous price of 0
\* counting as a percentage of 0
PctNum(r) == IF r.prev_price > 0 THEN Abs(r.change) ELSE 0
PctDen(r) == IF r.prev_price > 0 THEN r.prev_price ELSE 1
AbsPctGe(a, b) == PctNum(a) * PctDen(b) >= PctNum(b) * PctDen(a)

----------------------------------------------------------------------------
(* Properties of fetch_active_markets *)

\* the answers that are pages with markets
IsMarketsPage(r) == ~r.error /\ Len(r.data) > 0

\* the markets of the first n answers, in page order
MarketsOfPages(n) == Flatten([i \in 1..n |-> responses[i].data])

\* the loop has requested pages 1, 2, ... in turn, at most SafetyLimit of them, and
\* after return all_markets holds the markets of the pages before the stop, which
\* is the first empty page, the first request error or page SafetyLimit
FetchedSoFar ==
    /\ fetchPc \in {"loop", "returned"}
    /\ Len(responses) <= SafetyLimit
    /\ fetchPc = "loop" =>
          /\ Len(responses) = page - 1
          /\ \A i \in 1..Len(responses) : IsMarketsPage(responses[i])
          /\ all_markets = MarketsOfPages(Len(responses))
    /\ fetchPc = "returned" =>
          /\ \A i \in 1..(page - 1) : IsMarketsPage(responses[i])
          /\ all_markets = MarketsOfPages(page - 1)
          /\ \/ Len(responses) = page /\ ~IsMarketsPage(responses[page])
             \/ Len(responses) = page - 1 /\ page - 1 = SafetyLimit

----------------------------------------------------------------------------
(* Properties of record_volume *)

\* year, month and day of a date string, as one number
DigitOf(c) == CHOOSE n \in 0..9 : DigitChar(n) = c
DayNumber(date) ==
    (DigitOf(date[1]) * 1000 + DigitOf(date[2]) * 100 + DigitOf(date[3]) * 10
       + DigitOf(date[4])) * 10000
    + (DigitOf(date[6]) * 10 + DigitOf(date[7])) * 100
    + DigitOf(date[9]) * 10 + DigitOf(date[10])

\* one entry per date, dates ascending, totals the sum of the two volumes
HistoryInOrder(history) ==
    /\ \A i, j \in 1..Len(history) :
          i < j => DayNumber(history[i].date) < DayNumber(history[j].date)
    /\ \A i \in 1..Len(history) :
          history[i].total_volume
            = history[i].limitless_volume + history[i].polymarket_volume

HistoriesInOrder == \A p \in 1..Len(stored) : HistoryInOrder(stored[p].volume_history)

HistoryOf(file, project_id) ==
    file[CHOOSE p \in 1..Len(file) : file[p].id = project_id].volume_history

DatesOf(history) == {history[i].date : i \in 1..Len(history)}

\* what a call, whose arguments and return value are call, has done to the file
RecordedStep(before, after, call) ==
    IF \E p \in 1..Len(before) :
          before[p].id = call.project_id /\ ~startswith(call.project_id, <<"_">>)
    THEN /\ call.value
         /\ VolumeEntry(call.date, call.limitless_volume, call.polymarket_volume)
              \in {HistoryOf(after, call.project_id)[i] :
                     i \in 1..Len(HistoryOf(after, call.project_id))}
         /\ DatesOf(HistoryOf(after, call.project_id))
              = DatesOf(HistoryOf(before, call.project_id)) \cup {call.date}
         /\ Len(HistoryOf(after, call.project_id))
              = Cardinality(DatesOf(HistoryOf(after, call.project_id)))
         /\ \A i \in 1..Len(HistoryOf(before, call.project_id)) :
               HistoryOf(before, call.project_id)[i].date # call.date
                 => HistoryOf(before, call.project_id)[i]
                      \in {HistoryOf(after, call.project_id)[k] :
                             k \in 1..Len(HistoryOf(after, call.project_id))}
    ELSE ~call.value /\ after = before

\* C30: after any sequence of record_volume calls from an empty volume_history, the
\* history of a project has at most one entry per date and is sorted by date
\* ascending; a call for a date already recorded overwrites its entry (total_volume
\* = limitless_volume + polymarket_volume) and adds none, the other entries staying;
\* a call for an unknown project id returns False and leaves the file unchanged
VolumeHistoryKept == []HistoriesInOrder /\ [][RecordedStep(stored, stored', returned')]_vars

\* the last call recorded the earliest of several dates of the history
EarliestDateRecorded ==
    /\ returned # Null
    /\ returned.value
    /\ Len(HistoryOf(stored, returned.project_id)) >= 2
    /\ HistoryOf(stored, returned.project_id)[1].date = returned.date
    /\ HistoryOf(stored, returned.project_id)[1].total_volume > 0

====
